---- MODULE Spec2Model ----
(***************************************************************************)
(* A model of msf-aux-auditor: the configuration loader (config.py), the   *)
(* two RPC module runners (msf_client.py, msf_runner.py), the AI selector  *)
(* and analyzer (ai_module_selector.py, ai_analyzer.py), the reporter      *)
(* (reporter.py) and the two CLI commands that drive them (cli.py).        *)
(***************************************************************************)
EXTENDS Integers, Sequences, FiniteSets, TLC

VARIABLES
    results,      \* ScanReporter.results: the list of result records
    clock,        \* the number of datetime.utcnow() readings taken so far
    file,         \* the report file: what the last save wrote, or NoFile
    summary,      \* what print_summary last put on the console
    lastOp,       \* the operation that acted last
    arg,          \* the input of the function a function-level specification applies
    ret,          \* what that function returned
    pc,           \* where the running command stands
    cmd,          \* the command: "scan" or "ai_scan"
    opts,         \* the command-line options read so far
    cfg,          \* the loaded configuration
    modules,      \* modules_to_run (scan) or all_modules (ai_scan)
    idx,          \* the number of modules the loop has gone through
    seqResults,   \* the local results list of run_module_sequence
    client,       \* runner.client
    rpc,          \* the RPC calls issued so far, counted by kind
    aiCalls,      \* the provider calls made so far
    selection,    \* the module selection ai_scan works on
    ai_analysis,  \* reporter.ai_analysis
    outcomes,     \* how each run_module call of the loop ended: "" or the exception
    reply,        \* what the last provider call did
    pending,      \* the exception on its way to the command boundary, and where it rose
    exitCode      \* the exit codes the command has ended with: none while it runs

reporterVars == <<results, clock, file, summary>>
funVars == <<arg, ret>>
cliVars == <<pc, cmd, opts, cfg, modules, idx, seqResults, client, rpc, aiCalls,
             selection, ai_analysis, outcomes, reply, pending, exitCode>>
vars == <<reporterVars, lastOp, funVars, cliVars>>

(***************************************************************************)
(* Python values.  Every value is a record [t, s, items]: t is the type,   *)
(* s the text of an atom (or the key of a dict entry), items the children  *)
(* of a list (values) or of a dict (entries, in insertion order).          *)
(***************************************************************************)
StrV(x) == [t |-> "str", s |-> x, items |-> <<>>]
IntV(x) == [t |-> "int", s |-> x, items |-> <<>>]
FltV(x) == [t |-> "float", s |-> x, items |-> <<>>]
NoneV == [t |-> "null", s |-> "null", items |-> <<>>]
TrueV == [t |-> "bool", s |-> "true", items |-> <<>>]
FalseV == [t |-> "bool", s |-> "false", items |-> <<>>]
ListV(xs) == [t |-> "list", s |-> "", items |-> xs]
Entry(k, v) == [t |-> "entry", s |-> k, items |-> <<v>>]
DictV(es) == [t |-> "dict", s |-> "", items |-> es]

\* key in d
HasKey(d, k) == \E i \in 1..Len(d.items) : d.items[i].s = k

\* d[k], for a key that is present
Get(d, k) == d.items[CHOOSE i \in 1..Len(d.items) : d.items[i].s = k].items[1]

\* d.get(k, default)
GetOr(d, k, default) == IF HasKey(d, k) THEN Get(d, k) ELSE default

\* d[k] = v on a copy of d: an existing key keeps its place, a new one goes last
DictSet(d, k, v) ==
    IF HasKey(d, k)
    THEN DictV([i \in 1..Len(d.items) |->
                  IF d.items[i].s = k THEN Entry(k, v) ELSE d.items[i]])
    ELSE DictV(Append(d.items, Entry(k, v)))

\* {**a, **b}
RECURSIVE DictMerge(_, _)
DictMerge(a, b) ==
    IF b.items = <<>> THEN a
    ELSE DictMerge(DictSet(a, Head(b.items).s, Head(b.items).items[1]),
                   DictV(Tail(b.items)))

(***************************************************************************)
(* JSON text, as the sequence of its tokens (white space carries no        *)
(* meaning in JSON and is left out).  A token has the shape of a value, so *)
(* the token of a string or a number is that atom.                         *)
(***************************************************************************)
Tok(k, x) == [t |-> k, s |-> x, items |-> <<>>]
LBracket == Tok("punct", "[")
RBracket == Tok("punct", "]")
LBrace == Tok("punct", "{")
RBrace == Tok("punct", "}")
Colon == Tok("punct", ":")
Comma == Tok("punct", ",")

RECURSIVE JsonDumps(_)
RECURSIVE DumpItems(_)
RECURSIVE DumpEntries(_)
\* json.dumps(v)
JsonDumps(v) ==
    CASE v.t = "str" -> <<Tok("str", v.s)>>
      [] v.t = "int" -> <<Tok("int", v.s)>>
      [] v.t = "float" -> <<Tok("float", v.s)>>
      [] v.t = "null" -> <<Tok("lit", "null")>>
      [] v.t = "bool" -> <<Tok("lit", v.s)>>
      [] v.t = "list" -> <<LBracket>> \o DumpItems(v.items) \o <<RBracket>>
      [] v.t = "dict" -> <<LBrace>> \o DumpEntries(v.items) \o <<RBrace>>

DumpItems(xs) ==
    IF xs = <<>> THEN <<>>
    ELSE IF Len(xs) = 1 THEN JsonDumps(xs[1])
    ELSE JsonDumps(xs[1]) \o <<Comma>> \o DumpItems(Tail(xs))

DumpEntries(es) ==
    IF es = <<>> THEN <<>>
    ELSE IF Len(es) = 1 THEN <<Tok("str", es[1].s), Colon>> \o JsonDumps(es[1].items[1])
    ELSE <<Tok("str", es[1].s), Colon>> \o JsonDumps(es[1].items[1])
           \o <<Comma>> \o DumpEntries(Tail(es))

\* the result of a parse step: ok, the value read, the index of the next token
Parsed(v, n) == [ok |-> TRUE, val |-> v, next |-> n]
ParseError == [ok |-> FALSE, val |-> NoneV, next |-> 0]

RECURSIVE ParseValue(_, _)
RECURSIVE ParseItems(_, _, _)
RECURSIVE ParseEntries(_, _, _)
\* the JSON decoder's scan of one value that starts at token i
ParseValue(toks, i) ==
    IF i > Len(toks) THEN ParseError
    ELSE LET tk == toks[i] IN
      CASE tk.t = "str" -> Parsed(StrV(tk.s), i + 1)
        [] tk.t = "int" -> Parsed(IntV(tk.s), i + 1)
        [] tk.t = "float" -> Parsed(FltV(tk.s), i + 1)
        [] tk.t = "lit" ->
             Parsed(IF tk.s = "null" THEN NoneV ELSE IF tk.s = "true" THEN TrueV ELSE FalseV,
                    i + 1)
        [] tk = LBracket ->
             IF i + 1 <= Len(toks) /\ toks[i + 1] = RBracket
             THEN Parsed(ListV(<<>>), i + 2)
             ELSE ParseItems(toks, i + 1, <<>>)
        [] tk = LBrace ->
             IF i + 1 <= Len(toks) /\ toks[i + 1] = RBrace
             THEN Parsed(DictV(<<>>), i + 2)
             ELSE ParseEntries(toks, i + 1, DictV(<<>>))
        [] OTHER -> ParseError

\* the items of an array after "[" or ",": a value, then "," or "]"
ParseItems(toks, i, acc) ==
    LET r == ParseValue(toks, i) IN
    IF ~r.ok \/ r.next > Len(toks) THEN ParseError
    ELSE IF toks[r.next] = RBracket THEN Parsed(ListV(Append(acc, r.val)), r.next + 1)
    ELSE IF toks[r.next] = Comma THEN ParseItems(toks, r.next + 1, Append(acc, r.val))
    ELSE ParseError

\* the members of an object after "{" or ",": a string, ":", a value, then "," or "}"
ParseEntries(toks, i, acc) ==
    IF i + 1 > Len(toks) \/ toks[i].t # "str" \/ toks[i + 1] # Colon THEN ParseError
    ELSE LET r == ParseValue(toks, i + 2) IN
      IF ~r.ok \/ r.next > Len(toks) THEN ParseError
      ELSE IF toks[r.next] = RBrace
           THEN Parsed(DictSet(acc, toks[i].s, r.val), r.next + 1)
      ELSE IF toks[r.next] = Comma
           THEN ParseEntries(toks, r.next + 1, DictSet(acc, toks[i].s, r.val))
      ELSE ParseError

\* json.loads(text): ok is FALSE where it raises json.JSONDecodeError
JsonLoads(toks) ==
    LET r == ParseValue(toks, 1) IN
    IF r.ok /\ r.next = Len(toks) + 1 THEN [ok |-> TRUE, val |-> r.val]
    ELSE [ok |-> FALSE, val |-> NoneV]

(***************************************************************************)
(* reporter.py                                                             *)
(***************************************************************************)
NoFile == [fmt |-> "none", text |-> <<>>]

\* datetime.utcnow().isoformat() at the n-th reading of the clock
Timestamp(n) == StrV(ToString(n))

\* add_result with insert(0, ...) for append
add_result_in_front(rs, result, now) ==
    <<DictMerge(result, DictV(<<Entry("timestamp", Timestamp(now))>>))>> \o rs

\* ScanReporter.add_result: the results list after the call
add_result(rs, result, now) ==
    Append(rs, DictMerge(result, DictV(<<Entry("timestamp", Timestamp(now))>>)))

\* save_json that writes the list inside an object
save_json_wrapped(rs) ==
    [fmt |-> "json", text |-> JsonDumps(DictV(<<Entry("results", ListV(rs))>>))]

\* ScanReporter.save_json: the file it writes
save_json(rs) == [fmt |-> "json", text |-> JsonDumps(ListV(rs))]

(***************************************************************************)
(* Strings.  A module path is a TLA+ string; Chars gives the characters of *)
(* each path the model uses, and the string tests of the code are computed *)
(* on those characters.                                                    *)
(***************************************************************************)
ModulePaths ==
    {"auxiliary/scanner/http/http_version",
     "auxiliary/scanner/portscan/tcp",
     "auxiliary/",
     "exploit/multi/handler",
     "auxiliary",
     "Auxiliary/scanner/smb",
     "/auxiliary/scanner/smb",
     "scanner/auxiliary/smb",
     ""}

Chars(p) ==
    CASE p = "auxiliary/scanner/http/http_version" ->
           <<"a", "u", "x", "i", "l", "i", "a", "r", "y", "/", "s", "c", "a", "n", "n", "e", "r", "/", "h", "t", "t", "p", "/", "h", "t", "t", "p", "_", "v", "e", "r", "s", "i", "o", "n">>
      [] p = "auxiliary/scanner/portscan/tcp" ->
           <<"a", "u", "x", "i", "l", "i", "a", "r", "y", "/", "s", "c", "a", "n", "n", "e", "r", "/", "p", "o", "r", "t", "s", "c", "a", "n", "/", "t", "c", "p">>
      [] p = "auxiliary/" ->
           <<"a", "u", "x", "i", "l", "i", "a", "r", "y", "/">>
      [] p = "exploit/multi/handler" ->
           <<"e", "x", "p", "l", "o", "i", "t", "/", "m", "u", "l", "t", "i", "/", "h", "a", "n", "d", "l", "e", "r">>
      [] p = "auxiliary" ->
           <<"a", "u", "x", "i", "l", "i", "a", "r", "y">>
      [] p = "Auxiliary/scanner/smb" ->
           <<"A", "u", "x", "i", "l", "i", "a", "r", "y", "/", "s", "c", "a", "n", "n", "e", "r", "/", "s", "m", "b">>
      [] p = "/auxiliary/scanner/smb" ->
           <<"/", "a", "u", "x", "i", "l", "i", "a", "r", "y", "/", "s", "c", "a", "n", "n", "e", "r", "/", "s", "m", "b">>
      [] p = "scanner/auxiliary/smb" ->
           <<"s", "c", "a", "n", "n", "e", "r", "/", "a", "u", "x", "i", "l", "i", "a", "r", "y", "/", "s", "m", "b">>
      [] p = "" ->
           <<>>

\* the literal "auxiliary/" of config.py
AuxiliaryPrefix == <<"a", "u", "x", "i", "l", "i", "a", "r", "y", "/">>

\* str.startswith on characters
StartsWith(cs, prefix) ==
    /\ Len(cs) >= Len(prefix)
    /\ SubSeq(cs, 1, Len(prefix)) = prefix

(***************************************************************************)
(* Outcomes of a call: it returns a value or raises.  KeyboardInterrupt is *)
(* a BaseException; every other class here derives from Exception.         *)
(* typer.Exit is click.exceptions.Exit, a RuntimeError, and typer.Abort    *)
(* (what typer.confirm raises on Ctrl-C) is one too.                       *)
(***************************************************************************)
Ret(v) == [kind |-> "return", exc |-> "", code |-> 0, value |-> v]
Raise(e) == [kind |-> "raise", exc |-> e, code |-> 0, value |-> NoneV]
Exit(c) == [kind |-> "raise", exc |-> "Exit", code |-> c, value |-> NoneV]
NoException == Ret(NoneV)

IsException(e) == e \notin {"", "KeyboardInterrupt"}

\* str(e) of a raised exception
ErrorText(e) == StrV(e)

(***************************************************************************)
(* config.py                                                               *)
(***************************************************************************)
\* the default of ModuleConfig.timeout
DefaultTimeout == 300

NoConfig ==
    [loaded |-> FALSE, allowed_modules |-> <<>>, ai_enabled |-> FALSE,
     api_key |-> FALSE, timeout |-> DefaultTimeout]

\* validate_module_paths that returns after looking at the first entry only
validate_module_paths_first_only(v) ==
    IF v = <<>> THEN TRUE ELSE StartsWith(Chars(Head(v)), AuxiliaryPrefix)

RECURSIVE validate_module_paths(_)
\* ModuleConfig.validate_module_paths: TRUE where it returns v, FALSE where it raises
validate_module_paths(v) ==
    IF v = <<>> THEN TRUE
    ELSE IF ~StartsWith(Chars(Head(v)), AuxiliaryPrefix) THEN FALSE
    ELSE validate_module_paths(Tail(v))

\* load_config whose model has no validator for allowed_modules
load_config_unvalidated(f) ==
    IF ~f.exists THEN Raise("FileNotFoundError")
    ELSE IF ~f.json_ok THEN Raise("JSONDecodeError")
    ELSE [kind |-> "return", exc |-> "", code |-> 0,
          value |-> [loaded |-> TRUE, allowed_modules |-> f.allowed_modules,
                     ai_enabled |-> f.ai_enabled, api_key |-> f.api_key,
                     timeout |-> f.timeout]]

\* load_config on a configuration file f: [exists, json_ok, allowed_modules,
\* ai_enabled, api_key (non-empty), timeout]
load_config(f) ==
    IF ~f.exists THEN Raise("FileNotFoundError")
    ELSE IF ~f.json_ok THEN Raise("JSONDecodeError")
    ELSE IF ~validate_module_paths(f.allowed_modules) THEN Raise("ValidationError")
    ELSE [kind |-> "return", exc |-> "", code |-> 0,
          value |-> [loaded |-> TRUE, allowed_modules |-> f.allowed_modules,
                     ai_enabled |-> f.ai_enabled, api_key |-> f.api_key,
                     timeout |-> f.timeout]]

\* the prefixes UniversalMsfRunner removes, in the order of its loop, as
\* characters: 'auxiliary/', 'exploit/', 'payload/', 'encoder/', 'nop/',
\* 'post/', 'evasion/'
TypePrefixes ==
    <<<<"a", "u", "x", "i", "l", "i", "a", "r", "y", "/">>,
      <<"e", "x", "p", "l", "o", "i", "t", "/">>,
      <<"p", "a", "y", "l", "o", "a", "d", "/">>,
      <<"e", "n", "c", "o", "d", "e", "r", "/">>,
      <<"n", "o", "p", "/">>,
      <<"p", "o", "s", "t", "/">>,
      <<"e", "v", "a", "s", "i", "o", "n", "/">>>>

RECURSIVE Replace(_, _)
\* s.replace(old, ""): every occurrence of old, from the left, is removed
Replace(cs, old) ==
    IF Len(cs) < Len(old) THEN cs
    ELSE IF SubSeq(cs, 1, Len(old)) = old THEN Replace(SubSeq(cs, Len(old) + 1, Len(cs)), old)
    ELSE <<Head(cs)>> \o Replace(Tail(cs), old)

\* MsfAuxiliaryRunner.run_module and get_module_info: the name passed to
\* modules.use for the path with characters cs
auxiliary_module_name(cs) == Replace(cs, TypePrefixes[1])

RECURSIVE ReplaceEach(_, _)
\* for prefix in [...]: module_name = module_name.replace(prefix, "")
ReplaceEach(cs, i) ==
    IF i > Len(TypePrefixes) THEN cs ELSE ReplaceEach(Replace(cs, TypePrefixes[i]), i + 1)

\* UniversalMsfRunner.run_module and get_module_info: the name passed to
\* modules.use
universal_module_name(cs) == ReplaceEach(cs, 1)

(***************************************************************************)
(* msf_client.py and msf_runner.py: the two runners.                       *)
(*                                                                         *)
(* The RPC server's part in one run_module call is an environment record   *)
(*   use          : "ok", "raise" or "interrupt" (modules.use)          *)
(*   execute      : "ok" or "raise" (module.execute)                       *)
(*   result       : what module.execute returns                            *)
(*   doneAt       : the first poll at which the job is no longer listed    *)
(*   listFailAt   : the poll at which jobs.list raises (0: never)          *)
(*   intrAt       : the sleep during which Ctrl-C arrives (0: never)       *)
(*   intrPause    : Ctrl-C arrives in run_module_sequence's pause          *)
(* Time advances one second per time.sleep(1).                             *)
(***************************************************************************)
\* self.client = None
NoClient == 0

\* bool(v) of a Python value
Truthy(v) ==
    CASE v.t = "null" -> FALSE
      [] v.t = "bool" -> v.s = "true"
      [] v.t = "int" -> v.s # "0"
      [] v.t = "float" -> v.s # "0.0"
      [] v.t = "str" -> v.s # ""
      [] OTHER -> v.items # <<>>

\* hasattr(result, 'get') and result.get('job_id')
HasJobId(result) == result.t = "dict" /\ Truthy(GetOr(result, "job_id", NoneV))

RECURSIVE PollLoop_unbounded(_, _, _, _)
\* the wait loop as `while True`: nothing but the job's end, an error or
\* Ctrl-C ends it
PollLoop_unbounded(k, timeout, result, env) ==
    IF env.intrAt = k + 1 THEN [end |-> "interrupt", slept |-> k + 1, lists |-> <<>>]
    ELSE IF ~HasJobId(result) THEN [end |-> "nojob", slept |-> k + 1, lists |-> <<>>]
    ELSE IF env.listFailAt = k + 1
         THEN [end |-> "raise", slept |-> k + 1, lists |-> <<"jobs.list">>]
    ELSE IF ~(k + 1 < env.doneAt)
         THEN [end |-> "gone", slept |-> k + 1, lists |-> <<"jobs.list">>]
    ELSE LET r == PollLoop_unbounded(k + 1, timeout, result, env) IN
         [end |-> r.end, slept |-> r.slept, lists |-> <<"jobs.list">> \o r.lists]

RECURSIVE PollLoop(_, _, _, _)
\* the wait loop of run_module after k sleeps: how it ends ("timeout": the
\* while condition fails; "gone": the job is not listed; "nojob": no job id;
\* "raise": jobs.list raised; "interrupt": Ctrl-C), the sleeps made and the
\* jobs.list calls issued
PollLoop(k, timeout, result, env) ==
    IF ~(k < timeout) THEN [end |-> "timeout", slept |-> k, lists |-> <<>>]
    ELSE IF env.intrAt = k + 1 THEN [end |-> "interrupt", slept |-> k + 1, lists |-> <<>>]
    ELSE IF ~HasJobId(result) THEN [end |-> "nojob", slept |-> k + 1, lists |-> <<>>]
    ELSE IF env.listFailAt = k + 1
         THEN [end |-> "raise", slept |-> k + 1, lists |-> <<"jobs.list">>]
    ELSE IF ~(k + 1 < env.doneAt)
         THEN [end |-> "gone", slept |-> k + 1, lists |-> <<"jobs.list">>]
    ELSE LET r == PollLoop(k + 1, timeout, result, env) IN
         [end |-> r.end, slept |-> r.slept, lists |-> <<"jobs.list">> \o r.lists]

\* what a run_module call did: its outcome, the RPC calls it issued in order,
\* the seconds it slept
Ran(o, calls, slept) ==
    [kind |-> o.kind, exc |-> o.exc, value |-> o.value, calls |-> calls, slept |-> slept]

\* MsfAuxiliaryRunner.run_module
run_module(cl, module_path, target, timeout, env) ==
    IF cl = NoClient THEN Ran(Raise("RuntimeError"), <<>>, 0)
    ELSE IF env.use = "interrupt"
         THEN Ran(Raise("KeyboardInterrupt"), <<"modules.use">>, 0)
    ELSE IF env.use = "raise" THEN Ran(Raise("ValueError"), <<"modules.use">>, 0)
    ELSE IF env.execute = "raise"
         THEN Ran(Raise("RuntimeError"), <<"modules.use", "execute">>, 0)
    ELSE LET p == PollLoop(0, timeout, env.result, env)
             calls == <<"modules.use", "execute">> \o p.lists
         IN CASE p.end = "interrupt" -> Ran(Raise("KeyboardInterrupt"), calls, p.slept)
              [] p.end = "raise" -> Ran(Raise("RuntimeError"), calls, p.slept)
              [] OTHER ->
                   Ran(Ret(DictV(<<Entry("module", StrV(module_path)),
                                   Entry("target", StrV(target)),
                                   Entry("status", StrV("completed")),
                                   Entry("result", env.result)>>)),
                       calls, p.slept)

\* UniversalMsfRunner.run_module whose handler around execute returns a
\* record with status 'failed' where the code raises RuntimeError
universal_run_module_failed_record(cl, module_type, module_path, target, timeout, env) ==
    IF cl = NoClient THEN Ran(Raise("RuntimeError"), <<>>, 0)
    ELSE IF module_path.t # "str" THEN Ran(Raise("AttributeError"), <<>>, 0)
    ELSE IF env.use = "interrupt"
         THEN Ran(Raise("KeyboardInterrupt"), <<"modules.use">>, 0)
    ELSE IF env.use = "raise" THEN Ran(Raise("ValueError"), <<"modules.use">>, 0)
    ELSE LET failed == Ret(DictV(<<Entry("module", module_path),
                                   Entry("module_type", StrV(module_type)),
                                   Entry("target", StrV(target)),
                                   Entry("status", StrV("failed")),
                                   Entry("execution_time", FltV("0"))>>))
         IN IF env.execute = "raise" THEN Ran(failed, <<"modules.use", "execute">>, 0)
    ELSE LET p == PollLoop(0, timeout, env.result, env)
             calls == <<"modules.use", "execute">> \o p.lists
         IN CASE p.end = "interrupt" -> Ran(Raise("KeyboardInterrupt"), calls, p.slept)
              [] p.end = "raise" -> Ran(failed, calls, p.slept)
              [] OTHER ->
                   Ran(Ret(DictV(<<Entry("module", module_path),
                                   Entry("module_type", StrV(module_type)),
                                   Entry("target", StrV(target)),
                                   Entry("status", StrV("completed")),
                                   Entry("execution_time", FltV(ToString(p.slept))),
                                   Entry("result", env.result)>>)),
                       calls, p.slept)

\* UniversalMsfRunner.run_module; module_path is a value (None when the
\* specification has no "module" key)
universal_run_module(cl, module_type, module_path, target, timeout, env) ==
    IF cl = NoClient THEN Ran(Raise("RuntimeError"), <<>>, 0)
    ELSE IF module_path.t # "str" THEN Ran(Raise("AttributeError"), <<>>, 0)
    ELSE IF env.use = "interrupt"
         THEN Ran(Raise("KeyboardInterrupt"), <<"modules.use">>, 0)
    ELSE IF env.use = "raise" THEN Ran(Raise("ValueError"), <<"modules.use">>, 0)
    ELSE IF env.execute = "raise"
         THEN Ran(Raise("RuntimeError"), <<"modules.use", "execute">>, 0)
    ELSE LET p == PollLoop(0, timeout, env.result, env)
             calls == <<"modules.use", "execute">> \o p.lists
         IN CASE p.end = "interrupt" -> Ran(Raise("KeyboardInterrupt"), calls, p.slept)
              [] p.end = "raise" -> Ran(Raise("RuntimeError"), calls, p.slept)
              [] OTHER ->
                   Ran(Ret(DictV(<<Entry("module", module_path),
                                   Entry("module_type", StrV(module_type)),
                                   Entry("target", StrV(target)),
                                   Entry("status", StrV("completed")),
                                   Entry("execution_time", FltV(ToString(p.slept))),
                                   Entry("result", env.result)>>)),
                       calls, p.slept)

\* get_module_info without the test of self.client: on a runner that holds
\* no client the attribute access fails inside the try
get_module_info_unchecked(cl, module_path, use) ==
    IF cl = NoClient THEN Ran(Raise("ValueError"), <<>>, 0)
    ELSE IF use = "interrupt" THEN Ran(Raise("KeyboardInterrupt"), <<"modules.use">>, 0)
    ELSE IF use = "raise" THEN Ran(Raise("ValueError"), <<"modules.use">>, 0)
    ELSE Ran(Ret(DictV(<<Entry("name", StrV(module_path))>>)), <<"modules.use">>, 0)

\* MsfAuxiliaryRunner.get_module_info; use is how modules.use ends; of the
\* record returned only the module's name is modelled
get_module_info(cl, module_path, use) ==
    IF cl = NoClient THEN Ran(Raise("RuntimeError"), <<>>, 0)
    ELSE IF use = "interrupt" THEN Ran(Raise("KeyboardInterrupt"), <<"modules.use">>, 0)
    ELSE IF use = "raise" THEN Ran(Raise("ValueError"), <<"modules.use">>, 0)
    ELSE Ran(Ret(DictV(<<Entry("name", StrV(module_path))>>)), <<"modules.use">>, 0)

\* UniversalMsfRunner.get_module_info; module_path is a value
universal_get_module_info(cl, module_type, module_path, use) ==
    IF cl = NoClient THEN Ran(Raise("RuntimeError"), <<>>, 0)
    ELSE IF module_path.t # "str" THEN Ran(Raise("AttributeError"), <<>>, 0)
    ELSE IF use = "interrupt" THEN Ran(Raise("KeyboardInterrupt"), <<"modules.use">>, 0)
    ELSE IF use = "raise" THEN Ran(Raise("ValueError"), <<"modules.use">>, 0)
    ELSE Ran(Ret(DictV(<<Entry("name", module_path), Entry("type", StrV(module_type))>>)),
             <<"modules.use">>, 0)

\* the record the per-module handler of `scan` adds for a module that raised
scan_failed_record(mod, target, e) ==
    DictV(<<Entry("module", StrV(mod)), Entry("target", StrV(target)),
            Entry("status", StrV("failed")), Entry("error", ErrorText(e))>>)

\* sequence_step without the per-item handler: an exception of run_module
\* leaves run_module_sequence and no record is appended
sequence_step_failfast(cl, rs, mod_spec, target, timeout, last, env) ==
    LET module_type == GetOr(mod_spec, "module_type", StrV("auxiliary")).s
        module_path == GetOr(mod_spec, "module", NoneV)
        r == universal_run_module(cl, module_type, module_path, target, timeout, env)
    IN IF r.kind = "return"
       THEN [results |-> Append(rs, r.value), exc |-> "", ran |-> r.exc, calls |-> r.calls]
       ELSE [results |-> rs, exc |-> r.exc, ran |-> r.exc, calls |-> r.calls]

\* one iteration of the loop of UniversalMsfRunner.run_module_sequence: the
\* results list after it, the exception that leaves the loop, if any (exc),
\* and how its run_module call ended (ran); last
\* says that this is the last module, env.intrPause that Ctrl-C arrives in the
\* two-second pause after a failure
sequence_step(cl, rs, mod_spec, target, timeout, last, env) ==
    LET module_type == GetOr(mod_spec, "module_type", StrV("auxiliary")).s
        module_path == GetOr(mod_spec, "module", NoneV)
        r == universal_run_module(cl, module_type, module_path, target, timeout, env)
    IN IF r.kind = "return"
       THEN [results |-> Append(rs, r.value), exc |-> "", ran |-> r.exc, calls |-> r.calls]
       ELSE IF IsException(r.exc)
       THEN [results |-> Append(rs, DictV(<<Entry("module", module_path),
                                            Entry("module_type", StrV(module_type)),
                                            Entry("target", StrV(target)),
                                            Entry("status", StrV("failed")),
                                            Entry("error", ErrorText(r.exc))>>)),
             exc |-> IF ~last /\ env.intrPause THEN "KeyboardInterrupt" ELSE "",
             ran |-> r.exc, calls |-> r.calls]
       ELSE [results |-> rs, exc |-> r.exc, ran |-> r.exc, calls |-> r.calls]

\* disconnect with the reset of the client inside the try block, after the
\* logout call: a logout that raises leaves the client set
disconnect_reset_in_try(cl, logout) ==
    IF cl = NoClient THEN [client |-> NoClient, calls |-> <<>>, exc |-> ""]
    ELSE IF logout = "interrupt"
         THEN [client |-> cl, calls |-> <<"logout">>, exc |-> "KeyboardInterrupt"]
    ELSE IF logout = "raise" THEN [client |-> cl, calls |-> <<"logout">>, exc |-> ""]
    ELSE [client |-> NoClient, calls |-> <<"logout">>, exc |-> ""]

\* disconnect without the test of self.client: logout is attempted on a
\* runner that holds no client too
disconnect_unguarded(cl, logout) ==
    IF cl # NoClient /\ logout = "interrupt"
    THEN [client |-> cl, calls |-> <<"logout">>, exc |-> "KeyboardInterrupt"]
    ELSE [client |-> NoClient, calls |-> <<"logout">>, exc |-> ""]

\* MsfAuxiliaryRunner.disconnect and UniversalMsfRunner.disconnect: the client
\* afterwards, the RPC calls issued, the exception that leaves it; logout is
\* how client.logout() ends ("ok", "raise" or "interrupt")
disconnect(cl, logout) ==
    IF cl = NoClient THEN [client |-> NoClient, calls |-> <<>>, exc |-> ""]
    ELSE IF logout = "interrupt"
         THEN [client |-> cl, calls |-> <<"logout">>, exc |-> "KeyboardInterrupt"]
    ELSE [client |-> NoClient, calls |-> <<"logout">>, exc |-> ""]

\* MsfAuxiliaryRunner.connect and UniversalMsfRunner.connect; login is how the
\* MsfRpcClient constructor ends ("ok", "raise" or "interrupt") and session the
\* client it builds
connect(cl, login, session) ==
    CASE login = "ok" -> [client |-> session, calls |-> <<"login">>, exc |-> ""]
      [] login = "raise" ->
           [client |-> cl, calls |-> <<"login">>, exc |-> "ConnectionError"]
      [] OTHER -> [client |-> cl, calls |-> <<"login">>, exc |-> "KeyboardInterrupt"]

(***************************************************************************)
(* ai_analyzer.py and ai_module_selector.py.  What the provider call does  *)
(* is an environment record [how, text]: how is "text" (it returns the     *)
(* JSON text `text`), "none" (it returns None), "raise" (it raises an      *)
(* Exception) or "interrupt" (Ctrl-C arrives while it blocks).             *)
(***************************************************************************)
\* a str whose characters are the tokens toks: the raw text of a response
TextV(toks) == [t |-> "str", s |-> "", items |-> toks]

\* _parse_analysis without its handler: the decoder's error leaves the method
parse_analysis_no_handler(analysis) ==
    LET parsed == JsonLoads(analysis) IN
    IF parsed.ok THEN Ret(parsed.val) ELSE Raise("JSONDecodeError")

\* AIAnalyzer._parse_analysis on a response text
parse_analysis(analysis) ==
    LET parsed == JsonLoads(analysis) IN
    IF parsed.ok THEN Ret(parsed.val)
    ELSE Ret(DictV(<<Entry("analysis", TextV(analysis)),
                     Entry("vulnerabilities", ListV(<<>>)),
                     Entry("recommendations", ListV(<<>>)),
                     Entry("risk_level", StrV("unknown"))>>))

\* the payload analyze_results returns when its try block raised e
analysis_failed(e) ==
    DictV(<<Entry("analysis", StrV("Analysis failed")),
            Entry("vulnerabilities", ListV(<<>>)),
            Entry("recommendations", ListV(<<>>)),
            Entry("risk_level", StrV("unknown")),
            Entry("error", ErrorText(e))>>)

\* analyze_results without its handler: what the provider call or the parse
\* raises leaves the method
analyze_results_no_handler(rs, provider) ==
    IF rs = <<>>
    THEN Ret(DictV(<<Entry("analysis", StrV("No scan results to analyze.")),
                     Entry("vulnerabilities", ListV(<<>>)),
                     Entry("recommendations", ListV(<<>>)),
                     Entry("risk_level", StrV("unknown"))>>))
    ELSE CASE provider.how = "interrupt" -> Raise("KeyboardInterrupt")
           [] provider.how = "raise" -> Raise("APIError")
           [] provider.how = "none" -> Raise("TypeError")
           [] OTHER -> parse_analysis(provider.text)

\* AIAnalyzer.analyze_results
analyze_results(rs, provider) ==
    IF rs = <<>>
    THEN Ret(DictV(<<Entry("analysis", StrV("No scan results to analyze.")),
                     Entry("vulnerabilities", ListV(<<>>)),
                     Entry("recommendations", ListV(<<>>)),
                     Entry("risk_level", StrV("unknown"))>>))
    ELSE CASE provider.how = "interrupt" -> Raise("KeyboardInterrupt")
           [] provider.how = "raise" -> Ret(analysis_failed("APIError"))
           [] provider.how = "none" -> Ret(analysis_failed("TypeError"))
           [] OTHER -> parse_analysis(provider.text)

\* the seven module types, in the order the code walks them
ModuleTypes == <<"auxiliary", "exploit", "payload", "encoder", "nop", "post", "evasion">>

\* the static structure of the selector's two error returns
NoModules == DictV([i \in 1..Len(ModuleTypes) |-> Entry(ModuleTypes[i], ListV(<<>>))])

\* AIModuleSelector._parse_selection on a response text
parse_selection(response) ==
    LET data == JsonLoads(response) IN
    IF data.ok THEN Ret(data.val)
    ELSE Ret(DictV(<<Entry("error", StrV("Failed to parse AI response")),
                     Entry("raw_response", TextV(response)),
                     Entry("modules", NoModules)>>))

\* one entry of a module list can be displayed: it is a dict whose priority,
\* if present, is a str and whose options, if truthy, are a dict
EntryDisplays(mod) ==
    /\ mod.t = "dict"
    /\ GetOr(mod, "priority", StrV("low")).t = "str"
    /\ LET o == GetOr(mod, "options", NoneV) IN Truthy(o) => o.t = "dict"

\* the value of one module type can be displayed and counted: a list of such
\* entries, or an empty dict or str
TypeDisplays(ms) ==
    \/ ms.t = "list" /\ \A i \in 1..Len(ms.items) : EntryDisplays(ms.items[i])
    \/ ms.t = "dict" /\ ms.items = <<>>
    \/ ms = StrV("")

\* the display and count steps of select_modules on the parsed selection:
\* the exception they raise, "" when none ("modules" in a str is a substring
\* test: the model's only str that contains it is "modules" itself)
display_selection(data) ==
    IF data.t \notin {"dict", "list", "str"} THEN "TypeError"
    ELSE IF data.t = "str" THEN (IF data.s = "modules" THEN "TypeError" ELSE "")
    ELSE IF data.t = "list"
         THEN IF \E i \in 1..Len(data.items) : data.items[i] = StrV("execution_order")
              THEN "AttributeError"
              ELSE IF \E i \in 1..Len(data.items) : data.items[i] = StrV("modules")
              THEN "TypeError"
              ELSE ""
    ELSE IF HasKey(data, "execution_order")
              /\ Get(data, "execution_order").t \notin {"list", "dict", "str"}
         THEN "TypeError"
    ELSE IF ~HasKey(data, "modules") THEN ""
    ELSE LET v == Get(data, "modules") IN
         IF v.t # "dict" THEN "AttributeError"
         ELSE IF \A i \in 1..Len(ModuleTypes) :
                    HasKey(v, ModuleTypes[i]) => TypeDisplays(Get(v, ModuleTypes[i]))
         THEN ""
         ELSE "AttributeError"

\* the static structure select_modules returns from its handler
selection_failed(e) ==
    Ret(DictV(<<Entry("error", ErrorText(e)), Entry("modules", NoModules)>>))

\* select_modules without its handler: what the provider call, the parser
\* or the display raises leaves it
select_modules_no_handler(provider) ==
    CASE provider.how = "interrupt" -> Raise("KeyboardInterrupt")
      [] provider.how = "raise" -> Raise("APIError")
      [] provider.how = "none" -> Raise("TypeError")
      [] OTHER ->
           LET p == parse_selection(provider.text)
               e == display_selection(p.value)
           IN IF e = "" THEN p ELSE Raise(e)

\* AIModuleSelector.select_modules
select_modules(provider) ==
    CASE provider.how = "interrupt" -> Raise("KeyboardInterrupt")
      [] provider.how = "raise" -> selection_failed("APIError")
      [] provider.how = "none" -> selection_failed("TypeError")
      [] OTHER ->
           LET p == parse_selection(provider.text)
               e == display_selection(p.value)
           IN IF e = "" THEN p ELSE selection_failed(e)

\* priority_order.get(label, 1) of filter_by_priority
PriorityOrder(label) ==
    CASE label = StrV("high") -> 3
      [] label = StrV("medium") -> 2
      [] label = StrV("low") -> 1
      [] OTHER -> 1

\* priority_order.get(m.get("priority", "low"), 1)
Rank(m) == PriorityOrder(GetOr(m, "priority", StrV("low")))

RECURSIVE FilterList_above(_, _)
\* the comprehension with > for >=
FilterList_above(ms, min_priority) ==
    IF ms = <<>> THEN <<>>
    ELSE IF Rank(Head(ms)) > min_priority
         THEN <<Head(ms)>> \o FilterList_above(Tail(ms), min_priority)
    ELSE FilterList_above(Tail(ms), min_priority)

RECURSIVE FilterList_newest_first(_, _)
\* the comprehension building its list back to front
FilterList_newest_first(ms, min_priority) ==
    IF ms = <<>> THEN <<>>
    ELSE IF Rank(Head(ms)) >= min_priority
         THEN FilterList_newest_first(Tail(ms), min_priority) \o <<Head(ms)>>
    ELSE FilterList_newest_first(Tail(ms), min_priority)

RECURSIVE FilterList(_, _)
\* [m for m in ms if rank(m) >= min_priority]
FilterList(ms, min_priority) ==
    IF ms = <<>> THEN <<>>
    ELSE IF Rank(Head(ms)) >= min_priority
         THEN <<Head(ms)>> \o FilterList(Tail(ms), min_priority)
    ELSE FilterList(Tail(ms), min_priority)

RECURSIVE FilterTypes(_, _, _, _)
\* the loop of filter_by_priority over the module types from the i-th on,
\* filling filtered["modules"] (acc)
FilterTypes(mods, min_priority, i, acc) ==
    IF i > Len(ModuleTypes) THEN acc
    ELSE IF HasKey(mods, ModuleTypes[i])
         THEN FilterTypes(mods, min_priority, i + 1,
                          DictSet(acc, ModuleTypes[i],
                                  ListV(FilterList(Get(mods, ModuleTypes[i]).items,
                                                   min_priority))))
    ELSE FilterTypes(mods, min_priority, i + 1, acc)

\* AIModuleSelector.filter_by_priority, for a selection that is a list (whose
\* .get raises) or a dict whose "modules", when present, maps module types to
\* lists of dicts
filter_by_priority(sel, priority) ==
    IF sel.t # "dict" THEN Raise("AttributeError")
    ELSE LET min_priority == PriorityOrder(StrV(priority))
             head == <<Entry("target_analysis", GetOr(sel, "target_analysis", StrV(""))),
                       Entry("execution_order", GetOr(sel, "execution_order", ListV(<<>>)))>>
         IN IF ~HasKey(sel, "modules")
            THEN Ret(DictV(Append(head, Entry("modules", DictV(<<>>)))))
            ELSE Ret(DictV(Append(head,
                       Entry("modules", FilterTypes(Get(sel, "modules"), min_priority,
                                                    1, DictV(<<>>))))))

\* ScanReporter.print_summary: the rows of the table, or none
NoSummary == [shown |-> FALSE, rows |-> <<>>]
print_summary(rs) ==
    [shown |-> TRUE,
     rows |-> [i \in 1..Len(rs) |->
                 <<GetOr(rs[i], "module", StrV("unknown")), GetOr(rs[i], "target", StrV("unknown")),
                   GetOr(rs[i], "status", StrV("unknown")),
                   GetOr(rs[i], "timestamp", StrV("unknown"))>>]]

\* ScanReporter.save_yaml and save_text: the records the writer is handed, under
\* the writer's name (the layout of the two formats is not modelled)
save_yaml(rs) == [fmt |-> "yaml", text |-> rs]
save_text(rs) == [fmt |-> "text", text |-> rs]

(***************************************************************************)
(* cli.py                                                                  *)
(***************************************************************************)

\* command_exit without the KeyboardInterrupt handler at the command boundary
command_exit_one_handler(e) == IF e = "" THEN 0 ELSE 1

\* the exit code of a command whose outer try block ended with exception e
\* ("": it ran to its end): the two handlers at the command boundary
command_exit(e) ==
    IF e = "" THEN 0
    ELSE IF e = "KeyboardInterrupt" THEN 130
    ELSE 1

\* --output is not given
NoOutput == "(none)"
OutputPaths == {NoOutput, "report.json", "report.YML", "report"}

\* the characters of each output path the model uses
PathChars(output) ==
    CASE output = "report.json" -> <<"r", "e", "p", "o", "r", "t", ".", "j", "s", "o", "n">>
      [] output = "report.YML" -> <<"r", "e", "p", "o", "r", "t", ".", "Y", "M", "L">>
      [] output = "report" -> <<"r", "e", "p", "o", "r", "t">>
      [] output = "report.JSON" -> <<"r", "e", "p", "o", "r", "t", ".", "J", "S", "O", "N">>
      [] output = "report.yaml" -> <<"r", "e", "p", "o", "r", "t", ".", "y", "a", "m", "l">>
      [] output = "report.Yaml" -> <<"r", "e", "p", "o", "r", "t", ".", "Y", "a", "m", "l">>
      [] output = "report.txt" -> <<"r", "e", "p", "o", "r", "t", ".", "t", "x", "t">>
      [] output = "report.json.bak" -> <<"r", "e", "p", "o", "r", "t", ".", "j", "s", "o", "n", ".", "b", "a", "k">>
      [] output = "report.yml.json" -> <<"r", "e", "p", "o", "r", "t", ".", "y", "m", "l", ".", "j", "s", "o", "n">>
      [] output = ".json" -> <<".", "j", "s", "o", "n">>
      [] output = "out.d/report" -> <<"o", "u", "t", ".", "d", "/", "r", "e", "p", "o", "r", "t">>
      [] output = "report." -> <<"r", "e", "p", "o", "r", "t", ".">>
      [] output = "scan.jsonl" -> <<"s", "c", "a", "n", ".", "j", "s", "o", "n", "l">>

\* the position of the last c in cs, 0 when there is none: str.rfind
LastIndex(cs, c) ==
    LET S == {i \in 1..Len(cs) : cs[i] = c}
    IN IF S = {} THEN 0 ELSE CHOOSE i \in S : \A j \in S : j <= i

\* PurePath.name: the last component
PathName(cs) == SubSeq(cs, LastIndex(cs, "/") + 1, Len(cs))

\* PurePath.suffix: the name from its last dot on, unless that dot is the
\* name's first or last character
PathSuffix(cs) ==
    LET name == PathName(cs)
        i == LastIndex(name, ".")
    IN IF 1 < i /\ i < Len(name) THEN SubSeq(name, i, Len(name)) ELSE <<>>

\* str.lower on one character, for the letters the paths use
LowerChar(c) ==
    CASE c = "J" -> "j" [] c = "S" -> "s" [] c = "O" -> "o" [] c = "N" -> "n"
      [] c = "Y" -> "y" [] c = "M" -> "m" [] c = "L" -> "l"
      [] OTHER -> c

\* output.suffix without .lower()
LowerSuffix_case_sensitive(output) == PathSuffix(PathChars(output))

\* output.suffix.lower()
LowerSuffix(output) ==
    LET suffix == PathSuffix(PathChars(output))
    IN [i \in 1..Len(suffix) |-> LowerChar(suffix[i])]

\* the writers of the reporter the save step of both commands calls, in order
report_writers(output) ==
    IF output = NoOutput THEN <<>>
    ELSE LET ext == LowerSuffix(output) IN
         IF ext = <<".", "j", "s", "o", "n">> THEN <<"save_json">>
         ELSE IF ext \in {<<".", "y", "a", "m", "l">>, <<".", "y", "m", "l">>}
         THEN <<"save_yaml">>
         ELSE <<"save_text">>

\* the file after the writer w has written the results rs
write_report(rs, w) ==
    CASE w = "save_json" -> save_json(rs)
      [] w = "save_yaml" -> save_yaml(rs)
      [] OTHER -> save_text(rs)

RECURSIVE save_all(_, _, _)
save_all(old, rs, ws) ==
    IF ws = <<>> THEN old ELSE save_all(write_report(rs, Head(ws)), rs, Tail(ws))

\* the save step of both commands: the file after it
save_report(old, rs, output) == save_all(old, rs, report_writers(output))

\* scan_prepare with the test of --module inverted: the option is used when
\* it was not given
scan_prepare_inverted(f, module) ==
    IF ~f.exists
    THEN [exc |-> "Exit", code |-> 1, cfg |-> NoConfig, modules |-> <<>>]
    ELSE LET c == load_config(f) IN
      IF c.kind = "raise" THEN [exc |-> c.exc, code |-> 0, cfg |-> NoConfig, modules |-> <<>>]
      ELSE LET modules_to_run ==
                 IF ~Truthy(module) THEN <<module>>
                 ELSE [i \in 1..Len(c.value.allowed_modules) |-> StrV(c.value.allowed_modules[i])]
           IN IF modules_to_run = <<>>
              THEN [exc |-> "Exit", code |-> 1, cfg |-> c.value, modules |-> <<>>]
              ELSE [exc |-> "", code |-> 0, cfg |-> c.value, modules |-> modules_to_run]

\* scan_prepare that takes modules_to_run from the configuration whether or
\* not --module is given
scan_prepare_config_only(f, module) ==
    IF ~f.exists
    THEN [exc |-> "Exit", code |-> 1, cfg |-> NoConfig, modules |-> <<>>]
    ELSE LET c == load_config(f) IN
      IF c.kind = "raise" THEN [exc |-> c.exc, code |-> 0, cfg |-> NoConfig, modules |-> <<>>]
      ELSE LET modules_to_run ==
                 [i \in 1..Len(c.value.allowed_modules) |-> StrV(c.value.allowed_modules[i])]
           IN IF modules_to_run = <<>>
              THEN [exc |-> "Exit", code |-> 1, cfg |-> c.value, modules |-> <<>>]
              ELSE [exc |-> "", code |-> 0, cfg |-> c.value, modules |-> modules_to_run]

\* `scan` from its start to the construction of the runner: the exception
\* raised (and the code of a typer.Exit), the configuration, modules_to_run
scan_prepare(f, module) ==
    IF ~f.exists
    THEN [exc |-> "Exit", code |-> 1, cfg |-> NoConfig, modules |-> <<>>]
    ELSE LET c == load_config(f) IN
      IF c.kind = "raise" THEN [exc |-> c.exc, code |-> 0, cfg |-> NoConfig, modules |-> <<>>]
      ELSE LET modules_to_run ==
                 IF Truthy(module) THEN <<module>>
                 ELSE [i \in 1..Len(c.value.allowed_modules) |-> StrV(c.value.allowed_modules[i])]
           IN IF modules_to_run = <<>>
              THEN [exc |-> "Exit", code |-> 1, cfg |-> c.value, modules |-> <<>>]
              ELSE [exc |-> "", code |-> 0, cfg |-> c.value, modules |-> modules_to_run]

\* scan_step without the per-module handler: an exception of run_module
\* leaves the loop and no record is added
scan_step_failfast(cl, rs, mod, target, timeout, now, env) ==
    LET r == run_module(cl, mod.s, target, timeout, env) IN
    IF r.kind = "return"
    THEN [results |-> add_result(rs, r.value, now), exc |-> "", ran |-> r.exc,
          calls |-> r.calls]
    ELSE [results |-> rs, exc |-> r.exc, ran |-> r.exc, calls |-> r.calls]

\* one iteration of the module loop of `scan`: the reporter's results after
\* it, the exception that leaves the loop, if any (exc), and how its
\* run_module call ended (ran)
scan_step(cl, rs, mod, target, timeout, now, env) ==
    LET r == run_module(cl, mod.s, target, timeout, env) IN
    IF r.kind = "return"
    THEN [results |-> add_result(rs, r.value, now), exc |-> "", ran |-> r.exc,
          calls |-> r.calls]
    ELSE IF IsException(r.exc)
    THEN [results |-> add_result(rs, scan_failed_record(mod.s, target, r.exc), now),
          exc |-> "", ran |-> r.exc, calls |-> r.calls]
    ELSE [results |-> rs, exc |-> r.exc, ran |-> r.exc, calls |-> r.calls]

\* `ai_scan` from its start to the construction of the selector; ctor is how
\* the provider client's constructor ends
ai_prepare(f, ctor) ==
    IF ~f.exists THEN [exc |-> "Exit", code |-> 1, cfg |-> NoConfig]
    ELSE LET c == load_config(f) IN
      IF c.kind = "raise" THEN [exc |-> c.exc, code |-> 0, cfg |-> NoConfig]
      ELSE IF ~c.value.ai_enabled /\ ~c.value.api_key
           THEN [exc |-> "Exit", code |-> 1, cfg |-> c.value]
      ELSE IF ctor = "raise" THEN [exc |-> "ProviderError", code |-> 0, cfg |-> c.value]
      ELSE [exc |-> "", code |-> 0, cfg |-> c.value]

\* "error" in selection
HasError(sel) ==
    IF sel.t = "dict" THEN HasKey(sel, "error")
    ELSE \E i \in 1..Len(sel.items) : sel.items[i] = StrV("error")

RECURSIVE BuildType(_, _)
\* the inner loop of ai_scan's module list: the specifications of one type
BuildType(module_type, ms) ==
    IF ms = <<>> THEN <<>>
    ELSE <<DictV(<<Entry("module_type", StrV(module_type)),
                   Entry("module", GetOr(Head(ms), "module", NoneV)),
                   Entry("options", GetOr(Head(ms), "options", DictV(<<>>))),
                   Entry("priority", GetOr(Head(ms), "priority", StrV("low")))>>)>>
         \o BuildType(module_type, Tail(ms))

RECURSIVE BuildModules(_, _)
\* the outer loop over the module types from the i-th on
BuildModules(mods, i) ==
    IF i > Len(ModuleTypes) THEN <<>>
    ELSE BuildType(ModuleTypes[i], GetOr(mods, ModuleTypes[i], ListV(<<>>)).items)
         \o BuildModules(mods, i + 1)

\* ai_choose without the call of filter_by_priority
ai_choose_unfiltered(sel, priority) ==
    IF HasError(sel) THEN [exc |-> "Exit", code |-> 1, selection |-> sel, modules |-> <<>>]
    ELSE LET all_modules ==
               IF sel.t = "dict" /\ HasKey(sel, "modules")
               THEN BuildModules(Get(sel, "modules"), 1) ELSE <<>>
         IN IF all_modules = <<>>
            THEN [exc |-> "Exit", code |-> 0, selection |-> sel, modules |-> <<>>]
            ELSE [exc |-> "", code |-> 0, selection |-> sel, modules |-> all_modules]

\* `ai_scan` from the selection to the module list: the exception raised
\* there, the selection after the filter, all_modules
ai_choose(sel, priority) ==
    IF HasError(sel) THEN [exc |-> "Exit", code |-> 1, selection |-> sel, modules |-> <<>>]
    ELSE LET f == IF priority \in {"high", "medium", "low"}
                  THEN filter_by_priority(sel, priority) ELSE Ret(sel)
         IN IF f.kind = "raise"
            THEN [exc |-> f.exc, code |-> 0, selection |-> sel, modules |-> <<>>]
            ELSE LET all_modules ==
                       IF f.value.t = "dict" /\ HasKey(f.value, "modules")
                       THEN BuildModules(Get(f.value, "modules"), 1) ELSE <<>>
                 IN IF all_modules = <<>>
                    THEN [exc |-> "Exit", code |-> 0, selection |-> f.value, modules |-> <<>>]
                    ELSE [exc |-> "", code |-> 0, selection |-> f.value,
                          modules |-> all_modules]

\* ai_confirm that does not look at the response
ai_confirm_ignores_response(auto_run, answer) ==
    IF auto_run \/ answer \in {"yes", "no"} THEN [exc |-> "", code |-> 0]
    ELSE [exc |-> "Abort", code |-> 0]

\* the confirmation step of ai_scan: answer is what typer.confirm gets ("yes",
\* "no", or "abort" for Ctrl-C, which it turns into typer.Abort)
ai_confirm(auto_run, answer) ==
    IF auto_run \/ answer = "yes" THEN [exc |-> "", code |-> 0]
    ELSE IF answer = "no" THEN [exc |-> "Exit", code |-> 0]
    ELSE [exc |-> "Abort", code |-> 0]

RECURSIVE AddAll(_, _, _)
\* for result in results: reporter.add_result(result)
AddAll(rs, new, now) ==
    IF new = <<>> THEN rs
    ELSE AddAll(add_result(rs, Head(new), now + 1), Tail(new), now + 1)

(***************************************************************************)
(* Bounds and the inputs the specifications draw from.                     *)
(***************************************************************************)
MaxModules == 2     \* the longest allowed_modules list
MaxTimeout == 2     \* the largest configured timeout, in seconds

SeqsUpTo(S, n) == UNION {[1..k -> S] : k \in 0..n}

Target == "10.0.0.5"

\* the module paths the command-level specification configures
CliPaths ==
    {"auxiliary/scanner/http/http_version", "auxiliary/scanner/portscan/tcp",
     "exploit/multi/handler"}

\* the timeouts a configuration file sets: zero seconds, or some
Timeouts == {0, MaxTimeout}

\* configuration files: a missing one, one that is not JSON, and those whose
\* allowed_modules has up to n of the paths P and whose AI flags are in F
ConfigFiles(P, n, F) ==
    {[exists |-> e, json_ok |-> ~e, allowed_modules |-> <<>>, ai_enabled |-> FALSE,
      api_key |-> FALSE, timeout |-> 0] : e \in BOOLEAN}
    \cup [exists : {TRUE}, json_ok : {TRUE}, allowed_modules : SeqsUpTo(P, n),
          ai_enabled : F, api_key : F, timeout : Timeouts]

\* the files `scan` is run on (it reads no AI setting) and those `ai_scan` is
\* run on (it reads no allowed module)
ScanConfigFiles == ConfigFiles(CliPaths, MaxModules, {FALSE})
AiConfigFiles == ConfigFiles(CliPaths, 1, BOOLEAN)

\* --module: not given, empty, or a path
ModuleOptions == {NoneV, StrV("")} \cup {StrV(p) : p \in CliPaths}

\* what module.execute returns: a job, job 0, no job, or no dict at all
ExecResults ==
    {DictV(<<Entry("job_id", IntV("1")), Entry("uuid", StrV("u1"))>>),
     DictV(<<Entry("job_id", IntV("0")), Entry("uuid", StrV("u0"))>>),
     DictV(<<Entry("job_id", NoneV)>>),
     NoneV}

\* those the command-level specification draws from: a job, or none
CliExecResults ==
    {DictV(<<Entry("job_id", IntV("1")), Entry("uuid", StrV("u1"))>>),
     DictV(<<Entry("job_id", NoneV)>>)}

QuietRun ==
    [use |-> "ok", execute |-> "ok", result |-> NoneV, doneAt |-> 1, listFailAt |-> 0,
     intrAt |-> 0, intrPause |-> FALSE]

\* the RPC server's and the user's part in one run_module call, over the
\* execute results R
RpcEnvs(R) ==
    {[QuietRun EXCEPT !.use = u, !.intrPause = b] : u \in {"raise", "interrupt"}, b \in BOOLEAN}
    \cup {[QuietRun EXCEPT !.execute = "raise", !.intrPause = b] : b \in BOOLEAN}
    \cup {[QuietRun EXCEPT !.result = r, !.doneAt = d] :
            r \in R, d \in 1..(MaxTimeout + 1)}
    \cup {[QuietRun EXCEPT !.result = r, !.doneAt = d, !.listFailAt = k, !.intrPause = b] :
            r \in R, d \in 1..(MaxTimeout + 1), k \in 1..MaxTimeout, b \in BOOLEAN}
    \cup {[QuietRun EXCEPT !.result = r, !.doneAt = d, !.intrAt = k] :
            r \in R, d \in 1..(MaxTimeout + 1), k \in 1..MaxTimeout}

\* one entry of an AI selection; None for a field leaves the key out
Mod(module, priority) ==
    DictV((IF module = NoneV THEN <<>> ELSE <<Entry("module", module)>>)
          \o (IF priority = NoneV THEN <<>> ELSE <<Entry("priority", priority)>>))

\* selections an AI provider may answer with
SelectionSamples ==
    {DictV(<<Entry("target_analysis", StrV("web server")),
             Entry("modules", DictV(<<
                Entry("exploit", ListV(<<
                    Mod(StrV("exploit/multi/handler"), StrV("medium"))>>)),
                Entry("auxiliary", ListV(<<
                    Mod(StrV("auxiliary/scanner/http/http_version"), StrV("high"))>>))>>))>>),
     DictV(<<Entry("modules", DictV(<<
                Entry("post", ListV(<<Mod(NoneV, StrV("high"))>>)),
                Entry("auxiliary", ListV(<<
                    Mod(StrV("auxiliary/scanner/portscan/tcp"), NoneV)>>))>>))>>),
     DictV(<<Entry("error", StrV("refused")),
             Entry("modules", DictV(<<
                Entry("auxiliary", ListV(<<
                    Mod(StrV("auxiliary/scanner/http/http_version"), StrV("high"))>>))>>))>>),
     DictV(<<Entry("modules", DictV(<<
                Entry("auxiliary", ListV(<<>>)),
                Entry("evasion", ListV(<<
                    Mod(StrV("evasion/windows/applocker_evasion_msbuild"),
                        StrV("critical"))>>))>>))>>),
     DictV(<<Entry("target_analysis", StrV("unknown host"))>>),
     DictV(<<Entry("modules", ListV(<<>>))>>),
     DictV(<<Entry("modules", DictV(<<
                Entry("auxiliary", ListV(<<
                    DictV(<<Entry("module", StrV("auxiliary/scanner/portscan/tcp")),
                            Entry("priority", NoneV)>>)>>))>>))>>),
     ListV(<<>>)}

Junk == Tok("junk", "Sorry")

\* what a provider call does: it raises, is interrupted, returns None, returns
\* text that is no JSON, or returns the JSON text of one of the values V
ProviderReplies(V) ==
    {[how |-> h, text |-> <<>>] : h \in {"raise", "interrupt", "none"}}
    \cup {[how |-> "text", text |-> <<Junk>>]}
    \cup {[how |-> "text", text |-> JsonDumps(v)] : v \in V}

\* analyses an AI provider may answer with
AnalysisSamples ==
    {DictV(<<Entry("summary", StrV("one open port")),
             Entry("vulnerabilities", ListV(<<DictV(<<Entry("title", StrV("weak tls"))>>)>>)),
             Entry("risk_level", StrV("Low")),
             Entry("recommendations", ListV(<<>>))>>)}

(***************************************************************************)
(* The specification of the two commands: one run of `scan` or `ai_scan`,  *)
(* from its start to its exit code.                                        *)
(***************************************************************************)
NoPending == [exc |-> "", code |-> 0, at |-> ""]
NoReply == [how |-> "", text |-> <<>>]
\* the command line and the user's input as far as the command has read them:
\* the file --config names, --module, --output, --priority, --auto-run and
\* the answer to the confirmation prompt ("": not asked)
NoOpts ==
    [config |-> NoneV, module |-> NoneV, output |-> NoOutput, priority |-> "high",
     auto_run |-> FALSE, answer |-> ""]
NoRpc == [login |-> 0, sessions |-> 0, logout |-> 0, module |-> 0]

ReporterInit ==
    /\ results = <<>>
    /\ clock = 0
    /\ file = NoFile
    /\ summary = NoSummary

FunIdle ==
    /\ arg = NoneV
    /\ ret = NoneV

CliInit ==
    /\ pc = "start"
    /\ cmd = ""
    /\ opts = NoOpts
    /\ cfg = NoConfig
    /\ modules = <<>>
    /\ idx = 0
    /\ seqResults = <<>>
    /\ client = NoClient
    /\ rpc = NoRpc
    /\ aiCalls = 0
    /\ selection = NoneV
    /\ ai_analysis = NoneV
    /\ outcomes = <<>>
    /\ reply = NoReply
    /\ pending = NoPending
    /\ exitCode = <<>>

Init ==
    /\ ReporterInit
    /\ FunIdle
    /\ CliInit
    /\ lastOp = "init"

\* the command leaves through the handlers at its boundary with exception p
Leave(p) ==
    /\ pc' = "done"
    /\ pending' = p
    /\ exitCode' = Append(exitCode, command_exit(p.exc))

\* version: prints the version and returns
Version ==
    /\ pc = "start"
    /\ cmd' = "version"
    /\ pc' = "done"
    /\ exitCode' = Append(exitCode, 0)
    /\ lastOp' = "Version"
    /\ UNCHANGED <<reporterVars, funVars, opts, cfg, modules, idx, seqResults, client, rpc,
                   aiCalls, selection, ai_analysis, outcomes, reply, pending>>

\* info: prints the panel "This CLI is a scaffold and does not execute
\* Metasploit or any network actions." and returns
Info ==
    /\ pc = "start"
    /\ cmd' = "info"
    /\ pc' = "done"
    /\ exitCode' = Append(exitCode, 0)
    /\ lastOp' = "Info"
    /\ UNCHANGED <<reporterVars, funVars, opts, cfg, modules, idx, seqResults, client, rpc,
                   aiCalls, selection, ai_analysis, outcomes, reply, pending>>

\* scan, lines 51-75
ScanStart(f, m) ==
    /\ pc = "start"
    /\ LET p == scan_prepare(f, m) IN
         /\ cmd' = "scan"
         /\ opts' = [opts EXCEPT !.config = f, !.module = m]
         /\ cfg' = p.cfg
         /\ modules' = p.modules
         /\ IF p.exc = "" THEN pc' = "connect" /\ UNCHANGED <<pending, exitCode>>
            ELSE Leave([exc |-> p.exc, code |-> p.code, at |-> "start"])
    /\ lastOp' = "ScanStart"
    /\ UNCHANGED <<reporterVars, funVars, idx, seqResults, client, rpc, aiCalls, selection,
                   ai_analysis, outcomes, reply>>

\* ai_scan, lines 138-157
AiStart(f, ctor) ==
    /\ pc = "start"
    /\ ctor = "raise" => ~f.api_key
    /\ LET p == ai_prepare(f, ctor) IN
         /\ cmd' = "ai_scan"
         /\ opts' = [opts EXCEPT !.config = f]
         /\ cfg' = p.cfg
         /\ IF p.exc = "" THEN pc' = "select" /\ UNCHANGED <<pending, exitCode>>
            ELSE Leave([exc |-> p.exc, code |-> p.code, at |-> "start"])
    /\ lastOp' = "AiStart"
    /\ UNCHANGED <<reporterVars, funVars, modules, idx, seqResults, client, rpc, aiCalls,
                   selection, ai_analysis, outcomes, reply>>

\* ai_scan, lines 159-184
AiSelect(provider, priority) ==
    /\ pc = "select"
    /\ aiCalls' = aiCalls + 1
    /\ opts' = [opts EXCEPT !.priority = priority]
    /\ reply' = provider
    /\ LET o == select_modules(provider) IN
         IF o.kind = "raise"
         THEN /\ Leave([exc |-> o.exc, code |-> 0, at |-> "select"])
              /\ UNCHANGED <<selection, modules>>
         ELSE LET c == ai_choose(o.value, priority) IN
              /\ selection' = c.selection
              /\ modules' = c.modules
              /\ IF c.exc = "" THEN pc' = "confirm" /\ UNCHANGED <<pending, exitCode>>
                 ELSE Leave([exc |-> c.exc, code |-> c.code, at |-> "choose"])
    /\ lastOp' = "AiSelect"
    /\ UNCHANGED <<reporterVars, funVars, cmd, cfg, idx, seqResults, client, rpc, ai_analysis,
                   outcomes>>

\* ai_scan, lines 186-196
AiConfirm(auto_run, answer) ==
    /\ pc = "confirm"
    /\ auto_run => answer = "yes"
    /\ opts' = [opts EXCEPT !.auto_run = auto_run,
                             !.answer = IF auto_run THEN "" ELSE answer]
    /\ LET c == ai_confirm(auto_run, answer) IN
         IF c.exc = "" THEN pc' = "connect" /\ UNCHANGED <<pending, exitCode>>
         ELSE Leave([exc |-> c.exc, code |-> c.code, at |-> "confirm"])
    /\ lastOp' = "AiConfirm"
    /\ UNCHANGED <<reporterVars, funVars, cmd, cfg, modules, idx, seqResults, client, rpc,
                   aiCalls, selection, ai_analysis, outcomes, reply>>

\* runner.connect() in the inner try of both commands
Connect(login) ==
    /\ pc = "connect"
    /\ LET r == connect(client, login, rpc.sessions + 1) IN
         /\ client' = r.client
         /\ rpc' = [rpc EXCEPT !.login = @ + 1,
                               !.sessions = IF r.exc = "" THEN @ + 1 ELSE @]
         /\ IF r.exc = "" THEN pc' = "loop" /\ UNCHANGED pending
            ELSE pc' = "finally" /\ pending' = [exc |-> r.exc, code |-> 0, at |-> "connect"]
    /\ lastOp' = "Connect"
    /\ UNCHANGED <<reporterVars, funVars, cmd, opts, cfg, modules, idx, seqResults, aiCalls,
                   selection, ai_analysis, outcomes, reply, exitCode>>

\* scan, lines 82-95: one module of the loop
ScanModule(env) ==
    /\ pc = "loop"
    /\ cmd = "scan"
    /\ idx < Len(modules)
    /\ LET r == scan_step(client, results, modules[idx + 1], Target, cfg.timeout,
                          clock + 1, env) IN
         /\ results' = r.results
         /\ clock' = IF r.exc = "" THEN clock + 1 ELSE clock
         /\ rpc' = [rpc EXCEPT !.module = @ + Len(r.calls)]
         /\ outcomes' = Append(outcomes, r.ran)
         /\ IF r.exc # ""
            THEN pc' = "finally" /\ pending' = [exc |-> r.exc, code |-> 0, at |-> "module"]
            ELSE /\ pc' = IF idx + 1 = Len(modules) THEN "finally" ELSE "loop"
                 /\ UNCHANGED pending
    /\ idx' = idx + 1
    /\ lastOp' = "ScanModule"
    /\ UNCHANGED <<file, summary, funVars, cmd, opts, cfg, modules, seqResults, client, aiCalls,
                   selection, ai_analysis, reply, exitCode>>

\* ai_scan, line 203: one module of the loop of run_module_sequence
AiModule(env) ==
    /\ pc = "loop"
    /\ cmd = "ai_scan"
    /\ idx < Len(modules)
    /\ LET r == sequence_step(client, seqResults, modules[idx + 1], Target, cfg.timeout,
                              idx + 1 = Len(modules), env) IN
         /\ seqResults' = r.results
         /\ rpc' = [rpc EXCEPT !.module = @ + Len(r.calls)]
         /\ outcomes' = Append(outcomes, r.ran)
         /\ IF r.exc # ""
            THEN /\ pc' = "finally"
                 /\ pending' = [exc |-> r.exc, code |-> 0,
                                at |-> IF r.ran = r.exc THEN "module" ELSE "pause"]
            ELSE pc' = "loop" /\ UNCHANGED pending
    /\ idx' = idx + 1
    /\ lastOp' = "AiModule"
    /\ UNCHANGED <<reporterVars, funVars, cmd, opts, cfg, modules, client, aiCalls, selection,
                   ai_analysis, reply, exitCode>>

\* ai_scan, lines 203-211: run_module_sequence returns, the results are added
AiCollect ==
    /\ pc = "loop"
    /\ cmd = "ai_scan"
    /\ idx = Len(modules)
    /\ results' = AddAll(results, seqResults, clock)
    /\ clock' = clock + Len(seqResults)
    /\ pc' = "finally"
    /\ lastOp' = "AiCollect"
    /\ UNCHANGED <<file, summary, funVars, cmd, opts, cfg, modules, idx, seqResults, client, rpc,
                   aiCalls, selection, ai_analysis, outcomes, reply, pending, exitCode>>

\* the finally block of both commands: runner.disconnect(), then the pending
\* exception goes on to the command boundary
Disconnect(logout) ==
    /\ pc = "finally"
    /\ client = NoClient => logout = "ok"
    /\ LET r == disconnect(client, logout) IN
         /\ client' = r.client
         /\ rpc' = [rpc EXCEPT !.logout = @ + Len(r.calls)]
         /\ IF r.exc # "" THEN Leave([exc |-> r.exc, code |-> 0, at |-> "logout"])
            ELSE IF pending.exc # "" THEN Leave(pending)
            ELSE /\ pc' = IF cmd = "scan" THEN "report" ELSE "analyze"
                 /\ UNCHANGED <<pending, exitCode>>
    /\ lastOp' = "Disconnect"
    /\ UNCHANGED <<reporterVars, funVars, cmd, opts, cfg, modules, idx, seqResults, aiCalls,
                   selection, ai_analysis, outcomes, reply>>

\* the analysis step with the payload appended to the reporter's results
AiAnalyze_appends(provider) ==
    /\ pc = "analyze"
    /\ ~(cfg.ai_enabled /\ results # <<>>) => provider.how = "raise"
    /\ IF ~cfg.ai_enabled
       THEN pc' = "report" /\ UNCHANGED <<results, ai_analysis, aiCalls, reply, pending, exitCode>>
       ELSE LET o == analyze_results(results, provider) IN
            /\ aiCalls' = IF results = <<>> THEN aiCalls ELSE aiCalls + 1
            /\ reply' = IF results = <<>> THEN reply ELSE provider
            /\ IF o.kind = "raise"
               THEN /\ Leave([exc |-> o.exc, code |-> 0, at |-> "analyze"])
                    /\ UNCHANGED <<results, ai_analysis>>
               ELSE /\ ai_analysis' = o.value
                    /\ results' = Append(results, o.value)
                    /\ pc' = "report"
                    /\ UNCHANGED <<pending, exitCode>>
    /\ lastOp' = "AiAnalyze"
    /\ UNCHANGED <<clock, file, summary, funVars, cmd, opts, cfg, modules, idx, seqResults,
                   client, rpc, selection, outcomes>>

\* ai_scan, lines 216-224
AiAnalyze(provider) ==
    /\ pc = "analyze"
    /\ ~(cfg.ai_enabled /\ results # <<>>) => provider.how = "raise"
    /\ IF ~cfg.ai_enabled
       THEN pc' = "report" /\ UNCHANGED <<ai_analysis, aiCalls, reply, pending, exitCode>>
       ELSE LET o == analyze_results(results, provider) IN
            /\ aiCalls' = IF results = <<>> THEN aiCalls ELSE aiCalls + 1
            /\ reply' = IF results = <<>> THEN reply ELSE provider
            /\ IF o.kind = "raise"
               THEN Leave([exc |-> o.exc, code |-> 0, at |-> "analyze"]) /\ UNCHANGED ai_analysis
               ELSE /\ ai_analysis' = o.value
                    /\ pc' = "report"
                    /\ UNCHANGED <<pending, exitCode>>
    /\ lastOp' = "AiAnalyze"
    /\ UNCHANGED <<reporterVars, funVars, cmd, opts, cfg, modules, idx, seqResults, client, rpc,
                   selection, outcomes>>

\* scan, lines 101-115, and ai_scan, lines 226-240
Report(output) ==
    /\ pc = "report"
    /\ opts' = [opts EXCEPT !.output = output]
    /\ summary' = print_summary(results)
    /\ file' = save_report(file, results, output)
    /\ pc' = "done"
    /\ exitCode' = Append(exitCode, command_exit(""))
    /\ lastOp' = "Report"
    /\ UNCHANGED <<results, clock, funVars, cmd, cfg, modules, idx, seqResults, client, rpc,
                   aiCalls, selection, ai_analysis, outcomes, reply, pending>>

Next ==
    \/ Version
    \/ Info
    \/ \E f \in ScanConfigFiles, m \in ModuleOptions : ScanStart(f, m)
    \/ \E f \in AiConfigFiles, ctor \in {"ok", "raise"} : AiStart(f, ctor)
    \/ \E p \in ProviderReplies(SelectionSamples), priority \in {"high", "medium", "low", "all"} :
         AiSelect(p, priority)
    \/ \E auto_run \in BOOLEAN, answer \in {"yes", "no", "abort"} : AiConfirm(auto_run, answer)
    \/ \E login \in {"ok", "raise", "interrupt"} : Connect(login)
    \/ \E env \in RpcEnvs(CliExecResults) : ScanModule(env)
    \/ \E env \in RpcEnvs(CliExecResults) : AiModule(env)
    \/ AiCollect
    \/ \E logout \in {"ok", "raise", "interrupt"} : Disconnect(logout)
    \/ \E p \in ProviderReplies(AnalysisSamples) : AiAnalyze(p)
    \/ \E output \in OutputPaths : Report(output)

Spec == Init /\ [][Next]_vars

(***************************************************************************)
(* Properties of the two commands.                                         *)
(***************************************************************************)
\* the records the module loop of the running command has produced
LoopRecords == IF cmd = "scan" THEN results ELSE seqResults

\* the module identifier of the i-th module specification
ModuleOf(i) == IF cmd = "scan" THEN modules[i] ELSE GetOr(modules[i], "module", NoneV)

\* the i-th run_module call of the loop raised an Exception
Raised(i) == outcomes[i] \notin {"", "KeyboardInterrupt"}

\* the records of rs with status 'failed'
Failed(rs) == {i \in 1..Len(rs) : GetOr(rs[i], "status", NoneV) = StrV("failed")}

\* C1: continuation on failure.  Once the module loop of `scan` or of
\* run_module_sequence is entered, every module run so far has its record,
\* in the order of the list and with the module identifier of its
\* specification; a record has status 'failed' and an error string iff its
\* run_module call raised an Exception and status 'completed' otherwise;
\* only Ctrl-C ends the loop early, so a loop that ended without it has run
\* all N modules and made exactly N records.
C1_ContinuationOnFailure ==
    (pc \in {"loop", "finally", "analyze", "report", "done"} /\ rpc.sessions = 1) =>
      LET rs == LoopRecords
          n == Len(outcomes)
      IN /\ n = idx
         /\ n <= Len(modules)
         /\ \A i \in 1..n : outcomes[i] = "KeyboardInterrupt" => i = n
         /\ Len(rs) = Cardinality({i \in 1..n : outcomes[i] # "KeyboardInterrupt"})
         /\ \A i \in 1..Len(rs) :
              /\ Get(rs[i], "module") = ModuleOf(i)
              /\ (Get(rs[i], "status") = StrV("failed")) <=> Raised(i)
              /\ HasKey(rs[i], "error") <=> Raised(i)
              /\ HasKey(rs[i], "error") => Get(rs[i], "error").t = "str"
              /\ ~Raised(i) => Get(rs[i], "status") = StrV("completed")
         /\ (pc # "loop" /\ pending.exc = "") => (n = Len(modules) /\ Len(rs) = Len(modules))
         /\ (pc \in {"analyze", "report"} \/ (pc = "done" /\ pending.exc = "")) =>
              Len(results) = Len(modules)

\* C1 witness: the first module of a list of at least two failed, the loop
\* went on to the last one, and there is a record for every module
C1_Witness ==
    /\ pc = "finally"
    /\ Len(modules) >= 2
    /\ Len(outcomes) = Len(modules)
    /\ Raised(1)
    /\ outcomes[Len(modules)] = ""
    /\ Len(LoopRecords) = Len(modules)
    /\ Get(LoopRecords[1], "status") = StrV("failed")

\* C3: exit codes.  A command exits once, and only at its end; the code is
\* 0 exactly when it ran through its report (version and info print and
\* end with 0), 130 exactly when a
\* KeyboardInterrupt reached the command boundary, and 1 for every handled
\* error: a missing or invalid configuration, nothing to run, a failed RPC
\* connection, a failed AI selection, any other exception.
C3_ExitCodes ==
    /\ Len(exitCode) <= 1
    /\ (pc = "done") <=> (Len(exitCode) = 1)
    /\ pc = "done" =>
         LET code == exitCode[1] IN
         /\ code \in {0, 1, 130}
         /\ (code = 0) <=> (pending.exc = "" /\ (summary.shown \/ cmd \in {"version", "info"}))
         /\ (code = 130) <=> (pending.exc = "KeyboardInterrupt")
         /\ (code = 1) <=> (pending.exc \notin {"", "KeyboardInterrupt"})
         /\ pending.at \in {"start", "select", "choose", "confirm"} =>
              (code = 130) = (pending.exc = "KeyboardInterrupt" /\ pending.at = "select")
         /\ pending.at \in {"start", "choose", "confirm"} => code = 1
         /\ (pending.at = "connect" /\ pending.exc = "ConnectionError") => code = 1

\* C3 witness: a command that was interrupted while a module ran has exited
\* with 130
C3_Witness ==
    /\ pc = "done"
    /\ pending.at = "module"
    /\ pending.exc = "KeyboardInterrupt"
    /\ exitCode = <<130>>

\* C4: guaranteed release.  Once a command whose connect() succeeded is past
\* its finally block, logout has been issued exactly once for the one
\* connection, and the runner holds no client, on every path but the one on
\* which Ctrl-C arrives inside the logout call itself; before the finally
\* block the runner holds the client and no logout has been issued.
C4_GuaranteedRelease ==
    /\ rpc.logout <= rpc.sessions
    /\ rpc.sessions <= 1
    /\ (pc \in {"analyze", "report", "done"} /\ rpc.sessions = 1) =>
         /\ rpc.logout = 1
         /\ pending.at # "logout" => client = NoClient
    /\ (pc \in {"loop", "finally"} /\ rpc.sessions = 1) =>
         (client # NoClient /\ rpc.logout = 0)

\* C4 witness: a command interrupted while a module ran has exited, its
\* runner holds no client and the one logout was issued
C4_Witness ==
    /\ pc = "done"
    /\ rpc.sessions = 1
    /\ pending.at = "module"
    /\ pending.exc = "KeyboardInterrupt"
    /\ client = NoClient
    /\ rpc.logout = 1

\* the RPC errors of a run: a failed connection, and every run_module call
\* that raised
RpcErrors ==
    (IF rpc.login = 1 /\ rpc.sessions = 0 THEN 1 ELSE 0)
    + Cardinality({i \in 1..Len(outcomes) : Raised(i)})

\* C5 as stated: every RPC error, a failed initial connection included, has
\* become a failure record of a command that went on to its report.
C5_EveryRpcErrorBecomesARecord ==
    (pc = "done" /\ rpc.login = 1 /\ pending.exc # "KeyboardInterrupt") =>
      /\ Cardinality(Failed(results)) = RpcErrors
      /\ summary.shown
      /\ exitCode = <<0>>

\* C5 amended: every error of a module operation (the lookup, the
\* execution, the job listing) has become a failure record, all modules were
\* run and the command went on to its report and exit code 0; a failed
\* initial connection is not converted: the command runs no module, adds no
\* record, shows and writes no report and exits with code 1.
C5_ModuleErrorsBecomeRecords ==
    (pc = "done" /\ rpc.login = 1 /\ pending.exc # "KeyboardInterrupt") =>
      IF rpc.sessions = 0
      THEN /\ pending.exc = "ConnectionError"
           /\ outcomes = <<>>
           /\ results = <<>>
           /\ ~summary.shown
           /\ file = NoFile
           /\ exitCode = <<1>>
      ELSE /\ Failed(results) = {i \in 1..Len(outcomes) : Raised(i)}
           /\ Len(results) = Len(modules)
           /\ summary.shown
           /\ Len(summary.rows) = Len(results)
           /\ exitCode = <<0>>

\* C5 witness: a command one of whose modules raised has made the failure
\* record, run every module and shown its report
C5_Witness ==
    /\ pc = "done"
    /\ rpc.sessions = 1
    /\ \E i \in 1..Len(outcomes) : Raised(i)
    /\ Failed(results) # {}
    /\ Len(results) = Len(modules)
    /\ summary.shown
    /\ exitCode = <<0>>

\* the provider call of analyze_results was made and raised, returned
\* nothing, or returned text that is no JSON
AnalysisCallFailed ==
    /\ cmd = "ai_scan"
    /\ aiCalls = 2
    /\ \/ reply.how \in {"raise", "none"}
       \/ reply.how = "text" /\ ~JsonLoads(reply.text).ok

\* C8: AI errors never reach reporting.  When the provider call of
\* analyze_results raised or returned text that is no JSON, analyze_results
\* returned a payload with empty vulnerability and recommendation lists and
\* risk level 'unknown', no exception is on its way, and the command that
\* has ended has shown the summary of all records, written the requested
\* report with all of them and exited with code 0.
C8_AiErrorsNeverReachReporting ==
    AnalysisCallFailed =>
      /\ pc \in {"report", "done"}
      /\ pending.exc = ""
      /\ ai_analysis.t = "dict"
      /\ GetOr(ai_analysis, "vulnerabilities", NoneV) = ListV(<<>>)
      /\ GetOr(ai_analysis, "recommendations", NoneV) = ListV(<<>>)
      /\ GetOr(ai_analysis, "risk_level", NoneV) = StrV("unknown")
      /\ HasKey(ai_analysis, "analysis")
      /\ pc = "done" =>
           /\ exitCode = <<0>>
           /\ summary.shown
           /\ Len(summary.rows) = Len(results)
           /\ Len(results) = Len(modules)
           /\ opts.output = NoOutput => file = NoFile
           /\ opts.output # NoOutput =>
                IF file.fmt = "json"
                THEN JsonLoads(file.text) = [ok |-> TRUE, val |-> ListV(results)]
                ELSE file.fmt \in {"yaml", "text"} /\ file.text = results

\* C8 witness: the provider call of the analysis raised, and ai_scan has
\* ended with its summary shown and its JSON report written
C8_Witness ==
    /\ AnalysisCallFailed
    /\ reply.how = "raise"
    /\ pc = "done"
    /\ results # <<>>
    /\ summary.shown
    /\ file.fmt = "json"
    /\ exitCode = <<0>>

\* C10: end to end.  A `scan` of 10.0.0.5 without --module, on a
\* configuration whose allowed_modules is exactly
\* ['auxiliary/scanner/http/http_version'], with an RPC server that accepted
\* the login and on which the module's run returned, ends with a report of
\* exactly one record, of status 'completed', that module and that target,
\* and with exit code 0.
C10_EndToEnd ==
    (/\ cmd = "scan"
     /\ pc = "done"
     /\ cfg.loaded
     /\ cfg.allowed_modules = <<"auxiliary/scanner/http/http_version">>
     /\ ~Truthy(opts.module)
     /\ rpc.sessions = 1
     /\ outcomes = <<"">>
     /\ pending.at # "logout") =>
      /\ Len(results) = 1
      /\ Get(results[1], "status") = StrV("completed")
      /\ Get(results[1], "module") = StrV("auxiliary/scanner/http/http_version")
      /\ Get(results[1], "target") = StrV("10.0.0.5")
      /\ ~HasKey(results[1], "error")
      /\ summary.shown
      /\ Len(summary.rows) = 1
      /\ exitCode = <<0>>

\* C10 witness: that scan has ended, on a server whose module run was over
\* after the two calls that look the module up and execute it
C10_Witness ==
    /\ cmd = "scan"
    /\ pc = "done"
    /\ cfg.allowed_modules = <<"auxiliary/scanner/http/http_version">>
    /\ opts.module = NoneV
    /\ rpc.sessions = 1
    /\ rpc.module = 2
    /\ outcomes = <<"">>
    /\ Len(results) = 1
    /\ exitCode = <<0>>

(***************************************************************************)
(* load_config on its own: one call on a configuration file whose          *)
(* allowed_modules is any list of up to MaxModules of the sample paths.    *)
(***************************************************************************)
InitConfig ==
    /\ ReporterInit
    /\ CliInit
    /\ lastOp = "init"
    /\ arg \in ConfigFiles(ModulePaths, MaxModules, {FALSE})
    /\ ret = NoneV

LoadConfig ==
    /\ lastOp = "init"
    /\ ret' = load_config(arg)
    /\ lastOp' = "load_config"
    /\ UNCHANGED <<reporterVars, cliVars, arg>>

NextConfig == LoadConfig

SpecConfig == InitConfig /\ [][NextConfig]_vars

\* the path p starts with the ten characters a-u-x-i-l-i-a-r-y-/
HasAuxiliaryPrefix(p) ==
    LET cs == Chars(p) IN
    /\ Len(cs) >= 10
    /\ <<cs[1], cs[2], cs[3], cs[4], cs[5], cs[6], cs[7], cs[8], cs[9], cs[10]>>
         = <<"a", "u", "x", "i", "l", "i", "a", "r", "y", "/">>

\* the positions of arg.allowed_modules whose entry lacks the prefix
Unprefixed == {i \in 1..Len(arg.allowed_modules) : ~HasAuxiliaryPrefix(arg.allowed_modules[i])}

\* C2: load_config on a readable JSON configuration raises, and returns no
\* configuration, when some entry of allowed_modules, at whatever position,
\* does not start with 'auxiliary/'; it returns the configuration, with the
\* list as given, when every entry starts with it.
C2_LoadConfigRejectsUnprefixed ==
    (lastOp = "load_config" /\ arg.exists /\ arg.json_ok) =>
      /\ Unprefixed # {} => (ret.kind = "raise" /\ ret.exc = "ValidationError"
                              /\ ret.value = NoneV)
      /\ Unprefixed = {} => (ret.kind = "return" /\ ret.value.loaded
                              /\ ret.value.allowed_modules = arg.allowed_modules)

\* C2 witness: a list whose first entry has the prefix and whose last entry
\* lacks it was rejected
C2_Witness ==
    /\ lastOp = "load_config"
    /\ Len(arg.allowed_modules) >= 2
    /\ 1 \notin Unprefixed
    /\ Len(arg.allowed_modules) \in Unprefixed
    /\ ret.kind = "raise"

(***************************************************************************)
(* filter_by_priority on its own: one call on a selection whose "modules"  *)
(* holds entries under two of the seven module types (and, in one sample   *)
(* each, under a type outside the seven, or has no "modules" at all).      *)
(***************************************************************************)
MaxEntries == 2     \* the longest list of entries under one module type

\* entries of priority high, medium and low, one without a priority and one
\* with a label the filter does not know
EntrySamples ==
    {Mod(StrV("m/high"), StrV("high")), Mod(StrV("m/medium"), StrV("medium")),
     Mod(StrV("m/low"), StrV("low")), Mod(StrV("m/none"), NoneV),
     Mod(StrV("m/critical"), StrV("critical"))}

FilterSelections ==
    {DictV(<<Entry("target_analysis", StrV("web server")),
             Entry("modules",
                   DictV(<<Entry(ModuleTypes[(i % Len(ModuleTypes)) + 1], ListV(l2)),
                           Entry(ModuleTypes[i], ListV(l1))>>))>>) :
        i \in 1..Len(ModuleTypes), l1 \in SeqsUpTo(EntrySamples, MaxEntries),
        l2 \in SeqsUpTo(EntrySamples, 1)}
    \cup {DictV(<<Entry("modules",
                        DictV(<<Entry("scanner", ListV(l1)), Entry("nop", ListV(l1))>>))>>) :
            l1 \in SeqsUpTo(EntrySamples, 1)}
    \cup {DictV(<<Entry("target_analysis", StrV("unknown host"))>>), ListV(<<>>)}

InitFilter ==
    /\ ReporterInit
    /\ CliInit
    /\ lastOp = "init"
    /\ arg \in [sel : FilterSelections, priority : {"high", "medium", "low"}]
    /\ ret = NoneV

FilterByPriority ==
    /\ lastOp = "init"
    /\ ret' = filter_by_priority(arg.sel, arg.priority)
    /\ lastOp' = "filter_by_priority"
    /\ UNCHANGED <<reporterVars, cliVars, arg>>

NextFilter == FilterByPriority

SpecFilter == InitFilter /\ [][NextFilter]_vars

\* the seven module types
SevenTypes == {"auxiliary", "exploit", "payload", "encoder", "nop", "post", "evasion"}

\* the entry m carries priority high or medium
HighOrMedium(m) == HasKey(m, "priority") /\ Get(m, "priority") \in {StrV("high"), StrV("medium")}

\* every entry of the selection arg.sel, under any of the seven types,
\* carries priority high, medium or low
AllLabelled ==
    /\ arg.sel.t = "dict"
    /\ HasKey(arg.sel, "modules")
    /\ \A t \in SevenTypes :
         HasKey(Get(arg.sel, "modules"), t) =>
           \A j \in 1..Len(Get(Get(arg.sel, "modules"), t).items) :
             LET m == Get(Get(arg.sel, "modules"), t).items[j] IN
             HasKey(m, "priority")
               /\ Get(m, "priority") \in {StrV("high"), StrV("medium"), StrV("low")}

\* C6: filter_by_priority(selection, 'medium'), on a selection whose
\* entries carry priority high, medium or low, returns under each of the
\* seven module types of the selection exactly its high and medium entries,
\* in their order: no low entry is returned, no high or medium one dropped.
C6_FilterMedium ==
    (lastOp = "filter_by_priority" /\ arg.priority = "medium" /\ AllLabelled) =>
      /\ ret.kind = "return"
      /\ HasKey(ret.value, "modules")
      /\ LET given == Get(arg.sel, "modules")
             kept == Get(ret.value, "modules")
         IN /\ \A t \in SevenTypes :
                 /\ HasKey(kept, t) <=> HasKey(given, t)
                 /\ HasKey(given, t) =>
                      Get(kept, t) = ListV(SelectSeq(Get(given, t).items, HighOrMedium))
            /\ \A j \in 1..Len(kept.items) : kept.items[j].s \in SevenTypes

\* C6 witness: of a list with a low and a high entry, the filter at 'medium'
\* returned the high one alone
C6_Witness ==
    /\ lastOp = "filter_by_priority"
    /\ arg.priority = "medium"
    /\ AllLabelled
    /\ \E t \in SevenTypes :
         /\ HasKey(Get(arg.sel, "modules"), t)
         /\ Get(Get(arg.sel, "modules"), t).items
              = <<Mod(StrV("m/low"), StrV("low")), Mod(StrV("m/high"), StrV("high"))>>
         /\ Get(Get(ret.value, "modules"), t).items = <<Mod(StrV("m/high"), StrV("high"))>>

(***************************************************************************)
(* _parse_analysis on its own: one call on a response text, any sequence   *)
(* of up to MaxTokens tokens or the JSON text of a sample value.           *)
(***************************************************************************)
MaxTokens == 3      \* the longest response text drawn token by token

Alphabet ==
    {LBracket, RBracket, LBrace, RBrace, Colon, Comma, Junk,
     Tok("str", "k"), Tok("int", "1"), Tok("lit", "null")}

ResponseTexts ==
    SeqsUpTo(Alphabet, MaxTokens)
    \cup {JsonDumps(v) : v \in AnalysisSamples \cup SelectionSamples}
    \cup {JsonDumps(v) \o <<Junk>> : v \in AnalysisSamples}
    \cup {<<Junk>> \o JsonDumps(v) : v \in AnalysisSamples}
    \cup {SubSeq(JsonDumps(v), 1, Len(JsonDumps(v)) - 1) : v \in AnalysisSamples}

InitParse ==
    /\ ReporterInit
    /\ CliInit
    /\ lastOp = "init"
    /\ arg \in ResponseTexts
    /\ ret = NoneV

ParseAnalysis ==
    /\ lastOp = "init"
    /\ ret' = parse_analysis(arg)
    /\ lastOp' = "parse_analysis"
    /\ UNCHANGED <<reporterVars, cliVars, arg>>

NextParse == ParseAnalysis

SpecParse == InitParse /\ [][NextParse]_vars

\* C7: on a response text that is not valid JSON, _parse_analysis does not
\* raise and returns the fallback: 'analysis' is the raw text,
\* 'vulnerabilities' and 'recommendations' are empty lists, 'risk_level' is
\* 'unknown', and there is no other key.
C7_ParseAnalysisFallback ==
    (lastOp = "parse_analysis" /\ ~JsonLoads(arg).ok) =>
      /\ ret.kind = "return"
      /\ ret.exc = ""
      /\ ret.value.t = "dict"
      /\ {ret.value.items[j].s : j \in 1..Len(ret.value.items)}
           = {"analysis", "vulnerabilities", "recommendations", "risk_level"}
      /\ Len(ret.value.items) = 4
      /\ Get(ret.value, "analysis") = [t |-> "str", s |-> "", items |-> arg]
      /\ Get(ret.value, "vulnerabilities") = ListV(<<>>)
      /\ Get(ret.value, "recommendations") = ListV(<<>>)
      /\ Get(ret.value, "risk_level") = StrV("unknown")

\* C7 witness: a text that opens an object and never closes it came back
\* as the 'analysis' of the fallback
C7_Witness ==
    /\ lastOp = "parse_analysis"
    /\ Len(arg) >= 2
    /\ arg[1] = LBrace
    /\ ~JsonLoads(arg).ok
    /\ ret.kind = "return"
    /\ Get(ret.value, "analysis").items = arg
    /\ Get(ret.value, "risk_level") = StrV("unknown")

(***************************************************************************)
(* The reporter on its own: add_result calls, up to MaxResults of them,    *)
(* and print_summary, save_json, save_yaml and save_text calls in any      *)
(* order; arg is the record the last add_result call was given.            *)
(***************************************************************************)
MaxResults == 3     \* the most records a reporter is given

\* records with JSON-representable fields: what the runners return, a
\* record that brings its own "timestamp", one with nested values, an empty one
ResultSamples ==
    {DictV(<<Entry("module", StrV("auxiliary/scanner/http/http_version")),
             Entry("target", StrV(Target)), Entry("status", StrV("completed")),
             Entry("result", DictV(<<Entry("job_id", IntV("1")), Entry("uuid", StrV("u1"))>>))>>),
     scan_failed_record("auxiliary/scanner/portscan/tcp", Target, "ValueError"),
     DictV(<<Entry("timestamp", StrV("yesterday")), Entry("module", NoneV),
             Entry("execution_time", FltV("1.5")), Entry("result", NoneV)>>),
     DictV(<<Entry("result", ListV(<<IntV("1"), StrV("a"), TrueV, FalseV,
                                     DictV(<<Entry("k", ListV(<<>>)),
                                             Entry("d", DictV(<<>>))>>)>>))>>),
     DictV(<<>>)}

InitReport ==
    /\ ReporterInit
    /\ CliInit
    /\ FunIdle
    /\ lastOp = "init"

AddResult(r) ==
    /\ Len(results) < MaxResults
    /\ results' = add_result(results, r, clock + 1)
    /\ clock' = clock + 1
    /\ arg' = r
    /\ lastOp' = "add_result"
    /\ UNCHANGED <<file, summary, ret, cliVars>>

SaveJson ==
    /\ file' = save_json(results)
    /\ lastOp' = "save_json"
    /\ UNCHANGED <<results, clock, summary, funVars, cliVars>>

PrintSummary ==
    /\ summary' = print_summary(results)
    /\ lastOp' = "print_summary"
    /\ UNCHANGED <<results, clock, file, funVars, cliVars>>

SaveYaml ==
    /\ file' = save_yaml(results)
    /\ lastOp' = "save_yaml"
    /\ UNCHANGED <<results, clock, summary, funVars, cliVars>>

SaveText ==
    /\ file' = save_text(results)
    /\ lastOp' = "save_text"
    /\ UNCHANGED <<results, clock, summary, funVars, cliVars>>

NextReport ==
    \/ \E r \in ResultSamples : AddResult(r)
    \/ PrintSummary
    \/ SaveJson
    \/ SaveYaml
    \/ SaveText

SpecReport == InitReport /\ [][NextReport]_vars

\* C9: JSON round trip.  The file save_json has just written, read back as
\* JSON, is the list of the reporter's records: as many, in the same order,
\* each with the same keys and values.
C9_JsonRoundTrip ==
    lastOp = "save_json" =>
      /\ file.fmt = "json"
      /\ JsonLoads(file.text).ok
      /\ LET back == JsonLoads(file.text).val IN
           /\ back.t = "list"
           /\ Len(back.items) = Len(results)
           /\ \A i \in 1..Len(results) : back.items[i] = results[i]

\* C9 witness: a report of at least two records, one of them with nested
\* values and one that brought its own timestamp, was written and reads back
C9_Witness ==
    /\ lastOp = "save_json"
    /\ Len(results) >= 2
    /\ \E i \in 1..Len(results) :
         HasKey(results[i], "result") /\ Get(results[i], "result").t = "list"
    /\ \E i \in 1..Len(results) : HasKey(results[i], "execution_time")
    /\ JsonLoads(file.text).val = ListV(results)

(***************************************************************************)
(* run_module on its own: one call on a runner of either variant, that     *)
(* holds a client or none, with any timeout up to MaxTimeout and any       *)
(* behaviour of the RPC server and the user.                               *)
(***************************************************************************)
\* the module_path a call is given: a path, or (UniversalMsfRunner, from a
\* specification without "module") None
RunPaths == {StrV("auxiliary/scanner/http/http_version"), NoneV}

RunCalls ==
    [runner : {"MsfAuxiliaryRunner"}, client : {NoClient, 1},
     module_path : {StrV("auxiliary/scanner/http/http_version")},
     timeout : 0..MaxTimeout, env : RpcEnvs(ExecResults)]
    \cup [runner : {"UniversalMsfRunner"}, client : {NoClient, 1}, module_path : RunPaths,
          timeout : 0..MaxTimeout, env : RpcEnvs(ExecResults)]

InitRun ==
    /\ ReporterInit
    /\ CliInit
    /\ lastOp = "init"
    /\ arg \in RunCalls
    /\ ret = NoneV

RunModule ==
    /\ lastOp = "init"
    /\ ret' = IF arg.runner = "MsfAuxiliaryRunner"
              THEN run_module(arg.client, arg.module_path.s, Target, arg.timeout, arg.env)
              ELSE universal_run_module(arg.client, "auxiliary", arg.module_path, Target,
                                        arg.timeout, arg.env)
    /\ lastOp' = "run_module"
    /\ UNCHANGED <<reporterVars, cliVars, arg>>

NextRun == RunModule

SpecRun == InitRun /\ [][NextRun]_vars

\* the jobs.list calls among the RPC calls of the run
ListCalls == Cardinality({i \in 1..Len(ret.calls) : ret.calls[i] = "jobs.list"})

\* the call got as far as module.execute(), which returned
Executed ==
    /\ lastOp = "run_module"
    /\ Len(ret.calls) >= 2
    /\ ret.calls[2] = "execute"
    /\ arg.env.execute = "ok"

\* execute returned a dict with a job id that counts as one
AJob ==
    /\ arg.env.result.t = "dict"
    /\ HasKey(arg.env.result, "job_id")
    /\ Get(arg.env.result, "job_id") \notin {NoneV, IntV("0")}

\* no jobs.list error and no Ctrl-C arrives in the steps 1..n
Undisturbed(n) == arg.env.listFailAt \notin 1..n /\ arg.env.intrAt \notin 1..n

\* C11: bounded polling.  After execute, run_module of either runner sleeps
\* one second per step and lists the jobs at most once per step; it returns
\* or raises after at most `timeout` steps, after exactly `timeout` steps
\* when the job stays listed for ever, and at the first step at which the
\* job id is no longer listed when that step comes within the timeout.
C11_BoundedPolling ==
    Executed =>
      /\ ret.kind \in {"return", "raise"}
      /\ ret.slept <= arg.timeout
      /\ ListCalls <= ret.slept
      /\ (AJob /\ Undisturbed(arg.timeout) /\ arg.env.doneAt > arg.timeout) =>
           (ret.kind = "return" /\ ret.slept = arg.timeout /\ ListCalls = arg.timeout)
      /\ (AJob /\ arg.env.doneAt <= arg.timeout /\ Undisturbed(arg.env.doneAt)) =>
           (ret.kind = "return" /\ ret.slept = arg.env.doneAt
              /\ ListCalls = arg.env.doneAt)

\* C11 witness: a job that never left the list was polled `timeout` times,
\* more than once, and the call returned
C11_Witness ==
    /\ Executed
    /\ AJob
    /\ arg.timeout >= 2
    /\ arg.env.doneAt > arg.timeout
    /\ ret.kind = "return"
    /\ ret.slept = arg.timeout
    /\ ListCalls = arg.timeout

\* the record r without its "timestamp"
Untimed(r) == DictV(SelectSeq(r.items, LAMBDA e : e.s # "timestamp"))

\* C12: the result list is append-only.  Every add_result call leaves the
\* records that were there as they were and where they were, and puts
\* exactly one record behind them: the record it was given, with a
\* timestamp; print_summary, save_json, save_yaml and save_text leave the
\* list as it is.
C12_AppendOnly ==
    [][IF lastOp' = "add_result"
       THEN /\ Len(results') = Len(results) + 1
            /\ SubSeq(results', 1, Len(results)) = results
            /\ Untimed(results'[Len(results')]) = Untimed(arg')
            /\ HasKey(results'[Len(results')], "timestamp")
       ELSE /\ lastOp' \in {"print_summary", "save_json", "save_yaml", "save_text"}
            /\ results' = results]_vars

\* C12 witness: after add_result calls, a summary and saves in the other
\* formats, save_text has written a list of at least two records
C12_Witness ==
    /\ lastOp = "save_text"
    /\ Len(results) >= 2
    /\ results[1] # results[2]
    /\ summary.shown
    /\ Len(summary.rows) = 1
    /\ file.fmt = "text"
    /\ file.text = results

(***************************************************************************)
(* Further properties of the two commands, checked under Spec.             *)
(***************************************************************************)
\* the file --config names is missing, or one of its allowed_modules entries
\* does not start with 'auxiliary/'
ConfigError ==
    \/ ~opts.config.exists
    \/ \E i \in 1..Len(opts.config.allowed_modules) :
         ~HasAuxiliaryPrefix(opts.config.allowed_modules[i])

\* nothing outside the process has been touched: no RPC call, no AI provider
\* call, no summary printed, no report written
NoExternalAction ==
    /\ rpc = NoRpc
    /\ client = NoClient
    /\ aiCalls = 0
    /\ reply = NoReply
    /\ file = NoFile
    /\ summary = NoSummary
    /\ results = <<>>

\* C13: configuration errors are fatal before any external action.  A `scan`
\* or `ai_scan` started on a missing configuration file, or on one with an
\* entry that lacks the 'auxiliary/' prefix, has ended with exit code 1 and
\* has opened no RPC connection, called no AI provider and written no
\* report.
C13_ConfigErrorsAreFatal ==
    (cmd \in {"scan", "ai_scan"} /\ ConfigError) =>
      /\ pc = "done"
      /\ exitCode = <<1>>
      /\ cfg = NoConfig
      /\ NoExternalAction

\* C13 witness: `ai_scan` has ended on a file whose only entry is an exploit
\* path, although the file enables AI and sets a key
C13_Witness ==
    /\ cmd = "ai_scan"
    /\ opts.config.exists
    /\ opts.config.json_ok
    /\ opts.config.ai_enabled
    /\ opts.config.allowed_modules = <<"exploit/multi/handler">>
    /\ pending.exc = "ValidationError"
    /\ exitCode = <<1>>

\* C14: the CLI is a non-operational scaffold.  Whatever command runs
\* (version, info, scan, ai_scan), no RPC login, no module lookup or
\* execution, no logout and no AI provider call is ever made.
C14_NonOperationalScaffold ==
    cmd \in {"version", "info", "scan", "ai_scan"} =>
      /\ rpc = NoRpc
      /\ client = NoClient
      /\ aiCalls = 0

(***************************************************************************)
(* Properties of run_module's outcomes, checked under SpecRun.             *)
(***************************************************************************)
\* the call was made on a connected runner with a module path that is a string
Callable == arg.client # NoClient /\ arg.module_path.t = "str"

\* jobs.list raises during the polling of this call
ListFails ==
    /\ AJob
    /\ arg.env.listFailAt \in 1..arg.timeout
    /\ arg.env.listFailAt <= arg.env.doneAt
    /\ arg.env.intrAt \notin 1..arg.env.listFailAt

NothingSelected ==
    /\ cmd = "ai_scan"
    /\ pc = "done"
    /\ pending = [exc |-> "Exit", code |-> 0, at |-> "choose"]
    /\ modules = <<>>

\* the user answered 'no' to the prompt and ai_scan raised typer.Exit(0)
Cancelled ==
    /\ cmd = "ai_scan"
    /\ pc = "done"
    /\ pending = [exc |-> "Exit", code |-> 0, at |-> "confirm"]
    /\ ~opts.auto_run
    /\ opts.answer = "no"

\* C16: when the filtered selection has no modules, or the user answers
\* 'no' to the confirmation prompt, ai_scan exits with code 0 and has made
\* no RPC connection.
C16_CancelExitsZero ==
    (NothingSelected \/ Cancelled) =>
      /\ exitCode = <<0>>
      /\ rpc = NoRpc
      /\ client = NoClient

\* ai_scan is past its confirmation step: the runner exists
PastGate == pc \in {"connect", "loop", "finally", "analyze", "report"}

\* C17: the confirmation gate of ai_scan.  An RPC call (login, module
\* lookup or execution, logout) is made only when --auto-run was given or
\* the user answered yes to the prompt; without --auto-run the prompt comes
\* before the first RPC call, and any other answer ends the command with no
\* RPC call made.
C17_ConfirmationGate ==
    cmd = "ai_scan" =>
      /\ (rpc # NoRpc \/ client # NoClient \/ PastGate) =>
           (opts.auto_run \/ opts.answer = "yes")
      /\ pc \in {"start", "select", "confirm"} =>
           (rpc = NoRpc /\ client = NoClient /\ opts.answer = "" /\ ~opts.auto_run)
      /\ opts.answer \in {"no", "abort"} =>
           (pc = "done" /\ rpc = NoRpc /\ client = NoClient /\ results = <<>>)
      /\ opts.auto_run => opts.answer = ""

\* C17 witness: without --auto-run the user answered yes and a module has
\* been run over RPC
C17_Witness ==
    /\ cmd = "ai_scan"
    /\ ~opts.auto_run
    /\ opts.answer = "yes"
    /\ rpc.login = 1
    /\ rpc.module >= 2

(***************************************************************************)
(* Properties of what `scan` runs, checked under Spec.                     *)
(***************************************************************************)
\* the module paths `scan` has passed to runner.run_module so far
PassedToRunModule == {modules[i].s : i \in 1..idx}

\* the members of the configuration's allowed_modules list
Allowed == {cfg.allowed_modules[i] : i \in 1..Len(cfg.allowed_modules)}

\* C18 as stated: every module `scan` passes to runner.run_module is a
\* member of allowed_modules and carries the 'auxiliary/' prefix, also when
\* it was given with --module.
C18_AllowListEnforced ==
    cmd = "scan" =>
      \A p \in PassedToRunModule : p \in Allowed /\ HasAuxiliaryPrefix(p)

\* C18, amended: without --module `scan` passes the entries of
\* allowed_modules, in their order, to run_module, and each carries the
\* 'auxiliary/' prefix; with --module it passes that one module, whether or
\* not it is in allowed_modules and whatever its prefix.
C18_AllowListUnlessModuleOption ==
    (cmd = "scan" /\ idx >= 1) =>
      /\ cfg.loaded
      /\ idx <= Len(modules)
      /\ IF Truthy(opts.module)
         THEN modules = <<opts.module>>
         ELSE /\ Len(modules) = Len(cfg.allowed_modules)
              /\ \A i \in 1..idx :
                   /\ modules[i] = StrV(cfg.allowed_modules[i])
                   /\ HasAuxiliaryPrefix(modules[i].s)
      /\ ~Truthy(opts.module) => PassedToRunModule \subseteq Allowed

\* C18 witness: `scan --module exploit/multi/handler` on a configuration that
\* does not list it has looked the module up over RPC
C18_Witness ==
    /\ cmd = "scan"
    /\ opts.module = StrV("exploit/multi/handler")
    /\ cfg.allowed_modules = <<"auxiliary/scanner/http/http_version">>
    /\ idx = 1
    /\ PassedToRunModule = {"exploit/multi/handler"}
    /\ rpc.module >= 1

(***************************************************************************)
(* Properties of what `ai_scan` runs, checked under Spec.                  *)
(***************************************************************************)
\* the rank of the minimum priority --priority asks for
RequestedRank == PriorityOrder(StrV(opts.priority))

\* the module specifications ai_scan has handed to run_module so far
ExecutedModules == {modules[i] : i \in 1..idx}

\* C19: minimum priority at the command level.  Whatever value --priority
\* has, every module ai_scan executes, and every module it selected for
\* execution, has a rank (high 3, medium 2, low 1; a missing or unknown
\* label ranks as low) at least that of the requested minimum; with 'high',
\* the default, every one of them is labelled 'high'.
C19_MinimumPriority ==
    cmd = "ai_scan" =>
      /\ idx <= Len(modules)
      /\ \A i \in 1..Len(modules) :
           /\ Rank(modules[i]) >= RequestedRank
           /\ opts.priority = "high" => Get(modules[i], "priority") = StrV("high")
           /\ opts.priority = "medium" =>
                Get(modules[i], "priority") \in {StrV("high"), StrV("medium")}
      /\ \A m \in ExecutedModules : Rank(m) >= RequestedRank

\* C19 witness: with --priority medium the high and the medium module of a
\* selection have both been executed
C19_Witness ==
    /\ cmd = "ai_scan"
    /\ opts.priority = "medium"
    /\ idx = 2
    /\ {Get(m, "priority") : m \in ExecutedModules} = {StrV("high"), StrV("medium")}
    /\ rpc.module >= 2

(***************************************************************************)
(* A runner on its own: up to MaxCalls calls of connect, run_module,       *)
(* get_module_info and disconnect in any order.  cmd is the runner's       *)
(* class, client its self.client, idx the number of calls made, arg the    *)
(* last call and ret its outcome; pending is the last connect or           *)
(* disconnect call: which (at), the exception that left it (exc) and the   *)
(* client the runner held when it was called (code).                       *)
(***************************************************************************)
MaxCalls == 4

Runners == {"MsfAuxiliaryRunner", "UniversalMsfRunner"}

\* the module paths a caller hands to the runner cmd
PathsOf(runner) ==
    IF runner = "MsfAuxiliaryRunner" THEN {StrV("auxiliary/scanner/http/http_version")}
    ELSE RunPaths

InitRunner ==
    /\ ReporterInit
    /\ FunIdle
    /\ lastOp = "init"
    /\ pc = "runner"
    /\ cmd \in Runners
    /\ opts = NoOpts
    /\ cfg = NoConfig
    /\ modules = <<>>
    /\ idx = 0
    /\ seqResults = <<>>
    /\ client = NoClient
    /\ rpc = NoRpc
    /\ aiCalls = 0
    /\ selection = NoneV
    /\ ai_analysis = NoneV
    /\ outcomes = <<>>
    /\ reply = NoReply
    /\ pending = NoPending
    /\ exitCode = <<>>

\* what a call of the runner leaves alone besides the runner itself
RunnerFrame ==
    UNCHANGED <<reporterVars, pc, cmd, opts, cfg, modules, seqResults, aiCalls, selection,
                ai_analysis, outcomes, reply, exitCode>>

RunnerConnect(login) ==
    /\ idx < MaxCalls
    /\ LET r == connect(client, login, rpc.sessions + 1) IN
         /\ client' = r.client
         /\ rpc' = [rpc EXCEPT !.login = @ + 1,
                               !.sessions = IF r.exc = "" THEN @ + 1 ELSE @]
         /\ pending' = [exc |-> r.exc, code |-> client, at |-> "connect"]
         /\ ret' = Ran(IF r.exc = "" THEN Ret(NoneV) ELSE Raise(r.exc), r.calls, 0)
    /\ arg' = [op |-> "connect", how |-> login]
    /\ idx' = idx + 1
    /\ lastOp' = "connect"
    /\ RunnerFrame

RunnerDisconnect(logout) ==
    /\ idx < MaxCalls
    /\ client = NoClient => logout = "ok"
    /\ LET r == disconnect(client, logout) IN
         /\ client' = r.client
         /\ rpc' = [rpc EXCEPT !.logout = @ + Len(r.calls)]
         /\ pending' = [exc |-> r.exc, code |-> client, at |-> "disconnect"]
         /\ ret' = Ran(IF r.exc = "" THEN Ret(NoneV) ELSE Raise(r.exc), r.calls, 0)
    /\ arg' = [op |-> "disconnect", how |-> logout]
    /\ idx' = idx + 1
    /\ lastOp' = "disconnect"
    /\ RunnerFrame

RunnerRunModule(module_path, env) ==
    /\ idx < MaxCalls
    /\ module_path \in PathsOf(cmd)
    /\ ret' = IF cmd = "MsfAuxiliaryRunner"
              THEN run_module(client, module_path.s, Target, MaxTimeout, env)
              ELSE universal_run_module(client, "auxiliary", module_path, Target,
                                        MaxTimeout, env)
    /\ rpc' = [rpc EXCEPT !.module = @ + Len(ret'.calls)]
    /\ arg' = [op |-> "run_module", module_path |-> module_path, env |-> env]
    /\ idx' = idx + 1
    /\ lastOp' = "run_module"
    /\ UNCHANGED <<client, pending>>
    /\ RunnerFrame

RunnerGetModuleInfo(module_path, use) ==
    /\ idx < MaxCalls
    /\ module_path \in PathsOf(cmd)
    /\ ret' = IF cmd = "MsfAuxiliaryRunner"
              THEN get_module_info(client, module_path.s, use)
              ELSE universal_get_module_info(client, "auxiliary", module_path, use)
    /\ rpc' = [rpc EXCEPT !.module = @ + Len(ret'.calls)]
    /\ arg' = [op |-> "get_module_info", module_path |-> module_path, use |-> use]
    /\ idx' = idx + 1
    /\ lastOp' = "get_module_info"
    /\ UNCHANGED <<client, pending>>
    /\ RunnerFrame

NextRunner ==
    \/ \E login \in {"ok", "raise", "interrupt"} : RunnerConnect(login)
    \/ \E logout \in {"ok", "raise", "interrupt"} : RunnerDisconnect(logout)
    \/ \E p \in RunPaths, env \in RpcEnvs(CliExecResults) : RunnerRunModule(p, env)
    \/ \E p \in RunPaths, use \in {"ok", "raise", "interrupt"} : RunnerGetModuleInfo(p, use)

SpecRunner == InitRunner /\ [][NextRunner]_vars

\* the last call was a module operation of the runner
ModuleCall == lastOp \in {"run_module", "get_module_info"}

\* the last call issued one of modules.use, execute, jobs.list
IssuedModuleRpc ==
    \E i \in 1..Len(ret.calls) : ret.calls[i] \in {"modules.use", "execute", "jobs.list"}

\* the last call raised RuntimeError and issued no RPC call
RefusedUnconnected == ret.kind = "raise" /\ ret.exc = "RuntimeError" /\ ret.calls = <<>>

\* no connect has been called yet, or the last connect failed, or the last
\* disconnect returned
CalledOutOfOrder ==
    \/ pending.at = ""
    \/ pending.at = "connect" /\ pending.exc # ""
    \/ pending.at = "disconnect" /\ pending.exc = ""

\* C20 as stated: a module operation is issued over RPC only while the
\* runner is connected, and run_module and get_module_info called before
\* connect, after a failed connect, or after disconnect raise RuntimeError
\* without any RPC call.
C20_LifecycleOrder ==
    ModuleCall =>
      /\ IssuedModuleRpc => client # NoClient
      /\ CalledOutOfOrder => RefusedUnconnected

\* C20, amended: a module operation is issued over RPC only while the runner
\* holds a client, and run_module and get_module_info raise RuntimeError
\* without any RPC call exactly when it holds none.  It holds none before
\* the first connect, after a failed connect on a runner that held none, and
\* after a disconnect that returned; a successful connect gives it a new
\* client, a failed connect leaves the client it had, and so does a
\* disconnect that Ctrl-C interrupts inside logout.
C20_ModuleCallsNeedAClient ==
    /\ ModuleCall =>
         /\ IssuedModuleRpc => client # NoClient
         /\ (client = NoClient) <=> RefusedUnconnected
         /\ (client # NoClient /\ arg.module_path.t = "str") => IssuedModuleRpc
    /\ pending.at = "" => client = NoClient
    /\ (pending.at = "connect" /\ pending.exc = "") => client = rpc.sessions /\ client # NoClient
    /\ (pending.at = "connect" /\ pending.exc # "") => client = pending.code
    /\ (pending.at = "disconnect" /\ pending.exc = "") => client = NoClient
    /\ (pending.at = "disconnect" /\ pending.exc # "") =>
         (pending.exc = "KeyboardInterrupt" /\ client = pending.code /\ client # NoClient)

\* C20 witness: run_module was refused on a runner whose only connect failed
C20_Witness ==
    /\ lastOp = "run_module"
    /\ pending = [exc |-> "ConnectionError", code |-> NoClient, at |-> "connect"]
    /\ rpc.login = 1
    /\ client = NoClient
    /\ RefusedUnconnected
    /\ rpc.module = 0

(***************************************************************************)
(* The save step of both commands on its own: arg is the --output option   *)
(* and the reporter's results when the step is reached, outcomes the       *)
(* writers it calls.                                                       *)
(***************************************************************************)
SavePaths ==
    {NoOutput, "report.json", "report.YML", "report", "report.JSON", "report.yaml",
     "report.Yaml", "report.txt", "report.json.bak", "report.yml.json", ".json",
     "out.d/report", "report.", "scan.jsonl"}

InitSave ==
    /\ arg \in [output : SavePaths, results : SeqsUpTo(ResultSamples, 2)]
    /\ results = arg.results
    /\ clock = Len(arg.results)
    /\ file = NoFile
    /\ summary = NoSummary
    /\ ret = NoneV
    /\ lastOp = "init"
    /\ CliInit

SaveStep ==
    /\ lastOp = "init"
    /\ outcomes' = report_writers(arg.output)
    /\ file' = save_report(file, results, arg.output)
    /\ opts' = [opts EXCEPT !.output = arg.output]
    /\ lastOp' = "save"
    /\ UNCHANGED <<results, clock, summary, funVars, pc, cmd, cfg, modules, idx, seqResults,
                   client, rpc, aiCalls, selection, ai_analysis, reply, pending, exitCode>>

NextSave == SaveStep

SpecSave == InitSave /\ [][NextSave]_vars

\* the paths whose lower-cased suffix is '.json', and '.yaml' or '.yml'
JsonNamed == {"report.json", "report.JSON", "report.yml.json"}
YamlNamed == {"report.YML", "report.yaml", "report.Yaml"}

\* C21: report sink selection.  With --output the save step calls exactly
\* one writer: save_json when the lower-cased suffix of the path is '.json',
\* save_yaml when it is '.yaml' or '.yml', save_text for every other suffix
\* and for none, and the file holds what that writer writes; without
\* --output no writer is called and no file is written.
C21_SinkSelection ==
    lastOp = "save" =>
      /\ results = arg.results
      /\ IF arg.output = NoOutput
         THEN outcomes = <<>> /\ file = NoFile
         ELSE /\ Len(outcomes) = 1
              /\ outcomes[1] = (IF arg.output \in JsonNamed THEN "save_json"
                                ELSE IF arg.output \in YamlNamed THEN "save_yaml"
                                ELSE "save_text")
              /\ file = (IF arg.output \in JsonNamed THEN save_json(results)
                         ELSE IF arg.output \in YamlNamed THEN save_yaml(results)
                         ELSE save_text(results))

\* C21 witness: --output report.Yaml has made the save step call save_yaml,
\* and nothing else, on two records
C21_Witness ==
    /\ lastOp = "save"
    /\ arg.output = "report.Yaml"
    /\ Len(results) = 2
    /\ outcomes = <<"save_yaml">>
    /\ file = [fmt |-> "yaml", text |-> results]

(***************************************************************************)
(* The derivation of the module name on its own: arg is the method called  *)
(* and its module path, as characters; ret is the name handed to           *)
(* modules.use.  The paths are                                             *)
(*   'auxiliary/scanner/portscan/tcp'                                      *)
(*   'exploit/multi/handler'                                               *)
(*   'post/multi/gather/env'                                               *)
(*   'payload/cmd/unix/reverse'                                            *)
(*   'scanner/portscan/tcp'                                                *)
(*   'auxiliary/scanner/post/probe'                                        *)
(*   'auxiliary/auxiliary/x'                                               *)
(*   'exploit/payload/x'                                                   *)
(*   'scanner/auxiliary/smb'                                               *)
(*   'exauxiliary/ploit/x'                                                 *)
(*   'auxiliary/scanner/snop/x'                                            *)
(*   'auxiliary/'                                                          *)
(*   'auxiliary'                                                           *)
(*   ''                                                                    *)
(*   'evasion/windows/x'                                                   *)
(*   'encoder/x86/nop/y'                                                   *)
(*   'Auxiliary/scanner/smb'                                               *)
(*   '/auxiliary/x'                                                        *)
(***************************************************************************)
NamePaths ==
    {<<"a", "u", "x", "i", "l", "i", "a", "r", "y", "/", "s", "c", "a", "n", "n", "e", "r", "/", "p", "o", "r", "t", "s", "c", "a", "n", "/", "t", "c", "p">>,
     <<"e", "x", "p", "l", "o", "i", "t", "/", "m", "u", "l", "t", "i", "/", "h", "a", "n", "d", "l", "e", "r">>,
     <<"p", "o", "s", "t", "/", "m", "u", "l", "t", "i", "/", "g", "a", "t", "h", "e", "r", "/", "e", "n", "v">>,
     <<"p", "a", "y", "l", "o", "a", "d", "/", "c", "m", "d", "/", "u", "n", "i", "x", "/", "r", "e", "v", "e", "r", "s", "e">>,
     <<"s", "c", "a", "n", "n", "e", "r", "/", "p", "o", "r", "t", "s", "c", "a", "n", "/", "t", "c", "p">>,
     <<"a", "u", "x", "i", "l", "i", "a", "r", "y", "/", "s", "c", "a", "n", "n", "e", "r", "/", "p", "o", "s", "t", "/", "p", "r", "o", "b", "e">>,
     <<"a", "u", "x", "i", "l", "i", "a", "r", "y", "/", "a", "u", "x", "i", "l", "i", "a", "r", "y", "/", "x">>,
     <<"e", "x", "p", "l", "o", "i", "t", "/", "p", "a", "y", "l", "o", "a", "d", "/", "x">>,
     <<"s", "c", "a", "n", "n", "e", "r", "/", "a", "u", "x", "i", "l", "i", "a", "r", "y", "/", "s", "m", "b">>,
     <<"e", "x", "a", "u", "x", "i", "l", "i", "a", "r", "y", "/", "p", "l", "o", "i", "t", "/", "x">>,
     <<"a", "u", "x", "i", "l", "i", "a", "r", "y", "/", "s", "c", "a", "n", "n", "e", "r", "/", "s", "n", "o", "p", "/", "x">>,
     <<"a", "u", "x", "i", "l", "i", "a", "r", "y", "/">>,
     <<"a", "u", "x", "i", "l", "i", "a", "r", "y">>,
     <<>>,
     <<"e", "v", "a", "s", "i", "o", "n", "/", "w", "i", "n", "d", "o", "w", "s", "/", "x">>,
     <<"e", "n", "c", "o", "d", "e", "r", "/", "x", "8", "6", "/", "n", "o", "p", "/", "y">>,
     <<"A", "u", "x", "i", "l", "i", "a", "r", "y", "/", "s", "c", "a", "n", "n", "e", "r", "/", "s", "m", "b">>,
     <<"/", "a", "u", "x", "i", "l", "i", "a", "r", "y", "/", "x">>}

\* the four methods that look a module up
LookupMethods ==
    {"MsfAuxiliaryRunner.run_module", "MsfAuxiliaryRunner.get_module_info",
     "UniversalMsfRunner.run_module", "UniversalMsfRunner.get_module_info"}

InitName ==
    /\ arg \in [method : LookupMethods, module_path : NamePaths]
    /\ ret = NoneV
    /\ lastOp = "init"
    /\ ReporterInit
    /\ CliInit

DeriveName ==
    /\ lastOp = "init"
    /\ ret' = [module_name |->
                 IF arg.method \in {"MsfAuxiliaryRunner.run_module",
                                    "MsfAuxiliaryRunner.get_module_info"}
                 THEN auxiliary_module_name(arg.module_path)
                 ELSE universal_module_name(arg.module_path)]
    /\ lastOp' = "module_name"
    /\ UNCHANGED <<reporterVars, cliVars, arg>>

NextName == DeriveName

SpecName == InitName /\ [][NextName]_vars

\* the prefixes the method of the call knows: 'auxiliary/' for
\* MsfAuxiliaryRunner, the seven type prefixes for UniversalMsfRunner
KnownPrefixes ==
    IF arg.method \in {"MsfAuxiliaryRunner.run_module", "MsfAuxiliaryRunner.get_module_info"}
    THEN {TypePrefixes[1]}
    ELSE {TypePrefixes[i] : i \in 1..Len(TypePrefixes)}

\* the path cs starts with the characters p
LeadsWith(cs, p) == Len(cs) >= Len(p) /\ SubSeq(cs, 1, Len(p)) = p

\* the path without its leading type prefix, if it has one
WithoutLeadingPrefix(cs) ==
    IF \E p \in KnownPrefixes : LeadsWith(cs, p)
    THEN LET p == CHOOSE q \in KnownPrefixes : LeadsWith(cs, q)
         IN SubSeq(cs, Len(p) + 1, Len(cs))
    ELSE cs

\* C22: module name derivation.  The name passed to the RPC module lookup
\* is the module path with only its leading module-type prefix removed;
\* every later part of the path, also a segment that equals a type name, is
\* passed through unchanged, and a path without a prefix is passed
\* unchanged.
C22_OnlyLeadingPrefixRemoved ==
    lastOp = "module_name" => ret.module_name = WithoutLeadingPrefix(arg.module_path)

(***************************************************************************)
(* Properties of the module selection of ai_scan, checked under Spec.      *)
(***************************************************************************)
\* select_modules is the last provider call made
SelectCalled == cmd = "ai_scan" /\ aiCalls = 1

\* its provider call raised or returned nothing, or the response is no JSON
SelectCallFailed ==
    /\ SelectCalled
    /\ \/ reply.how \in {"raise", "none"}
       \/ reply.how = "text" /\ ~JsonLoads(reply.text).ok

\* the response is JSON that the display step of select_modules cannot show
SelectDisplayFailed ==
    /\ SelectCalled
    /\ reply.how = "text"
    /\ JsonLoads(reply.text).ok
    /\ display_selection(JsonLoads(reply.text).val) # ""

\* ai_scan has ended with exit code 1 and nothing has gone to the RPC server
EndedBeforeRpc ==
    /\ pc = "done"
    /\ exitCode = <<1>>
    /\ rpc = NoRpc
    /\ client = NoClient
    /\ outcomes = <<>>
    /\ results = <<>>

\* C23: select_modules never raises an Exception (only Ctrl-C leaves it).
\* When the provider call fails or the response is not valid JSON, or
\* cannot be displayed, it returns a mapping with an 'error' key and a
\* 'modules' mapping with an empty list for each of the seven module types;
\* and whenever the selection it returned has an 'error' key, ai_scan has
\* exited with code 1 without an RPC connection or a module run.
C23_SelectModulesNeverRaises ==
    SelectCalled =>
      /\ (pending.at = "select") <=> (reply.how = "interrupt")
      /\ pending.at = "select" => (pending.exc = "KeyboardInterrupt" /\ selection = NoneV)
      /\ reply.how # "interrupt" => selection # NoneV
      /\ (SelectCallFailed \/ SelectDisplayFailed) =>
           /\ selection.t = "dict"
           /\ HasKey(selection, "error")
           /\ Get(selection, "modules") = NoModules
           /\ \A i \in 1..Len(ModuleTypes) :
                Get(Get(selection, "modules"), ModuleTypes[i]) = ListV(<<>>)
      /\ (selection # NoneV /\ HasError(selection)) =>
           (EndedBeforeRpc /\ pending = [exc |-> "Exit", code |-> 1, at |-> "choose"])

\* C23 witness: the response was no JSON, select_modules returned the static
\* structure, and ai_scan has exited with code 1
C23_Witness ==
    /\ SelectCallFailed
    /\ reply.text = <<Junk>>
    /\ Get(selection, "error") = StrV("Failed to parse AI response")
    /\ Get(selection, "modules") = NoModules
    /\ EndedBeforeRpc

(***************************************************************************)
(* Properties of the polling of run_module, checked under SpecRun.         *)
(***************************************************************************)
\* what execute returned carries a job id, whatever its value
CarriesJobId ==
    /\ arg.env.result.t = "dict"
    /\ HasKey(arg.env.result, "job_id")
    /\ Get(arg.env.result, "job_id") # NoneV

\* C24: for every job id execute returns, job id 0 included, run_module
\* does not return before that id is absent from the job list or the
\* timeout has elapsed; only a result with no job id at all lets it return
\* after its first step.
C24_EveryJobIdIsAwaited ==
    (Executed /\ ret.kind = "return" /\ CarriesJobId) =>
      \/ ret.slept >= arg.timeout
      \/ ret.slept >= arg.env.doneAt

\* run_module returned a record with status 'completed'
ReturnedCompleted ==
    /\ lastOp = "run_module"
    /\ ret.kind = "return"
    /\ Get(ret.value, "status") = StrV("completed")

\* the last look at the job list found the job gone
ObservedGone == ListCalls >= 1 /\ ListCalls >= arg.env.doneAt

\* C25: a record with status 'completed' is returned only if the job was
\* observed to be no longer active, or execute returned no job id; when the
\* timeout elapses with the job still listed, or the timeout is 0 and no
\* poll is made, the module is not reported as 'completed'.
C25_CompletedMeansObserved ==
    /\ (ReturnedCompleted /\ AJob) => ObservedGone
    /\ (Executed /\ AJob /\ Undisturbed(arg.timeout) /\ arg.env.doneAt > arg.timeout) =>
         ~ReturnedCompleted

(***************************************************************************)
(* Relations between calls of filter_by_priority, checked under            *)
(* SpecFilter.                                                             *)
(***************************************************************************)
RECURSIVE IsSubsequence(_, _)
\* a is b with some elements left out, the rest in b's order
IsSubsequence(a, b) ==
    IF a = <<>> THEN TRUE
    ELSE IF b = <<>> THEN FALSE
    ELSE IF Head(a) = Head(b) THEN IsSubsequence(Tail(a), Tail(b))
    ELSE IsSubsequence(a, Tail(b))

\* the entries under module type t of the selection's "modules", none when
\* the selection has no such type
EntriesOf(sel, t) ==
    IF sel.t = "dict" /\ HasKey(sel, "modules") /\ HasKey(Get(sel, "modules"), t)
    THEN Get(Get(sel, "modules"), t).items
    ELSE <<>>

\* what filter_by_priority keeps of arg.sel at threshold p
KeptAt(p) == filter_by_priority(arg.sel, p).value

\* C26: filter_by_priority is a stable, idempotent, monotone filter.  For
\* every selection it returns on and every threshold: under each module
\* type the output's entries are a subsequence of the input's, and the
\* output has no other type; filtering the output again at the same
\* threshold returns it unchanged; what 'high' keeps is a subsequence of
\* what 'medium' keeps, that of what 'low' keeps, and 'low' keeps every
\* entry of the seven module types.
C26_StableIdempotentMonotone ==
    (lastOp = "filter_by_priority" /\ ret.kind = "return") =>
      /\ HasKey(ret.value, "modules")
      /\ \A j \in 1..Len(Get(ret.value, "modules").items) :
           /\ Get(ret.value, "modules").items[j].s \in SevenTypes
           /\ HasKey(Get(arg.sel, "modules"), Get(ret.value, "modules").items[j].s)
      /\ \A t \in SevenTypes :
           /\ IsSubsequence(EntriesOf(ret.value, t), EntriesOf(arg.sel, t))
           /\ IsSubsequence(EntriesOf(KeptAt("high"), t), EntriesOf(KeptAt("medium"), t))
           /\ IsSubsequence(EntriesOf(KeptAt("medium"), t), EntriesOf(KeptAt("low"), t))
           /\ EntriesOf(KeptAt("low"), t) = EntriesOf(arg.sel, t)
      /\ filter_by_priority(ret.value, arg.priority) = ret

\* C26 witness: of a low and a high entry under one type, in that order,
\* and a medium entry under another, 'high' kept the high one alone and
\* 'medium' both others
C26_Witness ==
    /\ lastOp = "filter_by_priority"
    /\ arg.priority = "high"
    /\ EntriesOf(arg.sel, "exploit") =
         <<Mod(StrV("m/low"), StrV("low")), Mod(StrV("m/high"), StrV("high"))>>
    /\ EntriesOf(arg.sel, "payload") = <<Mod(StrV("m/medium"), StrV("medium"))>>
    /\ EntriesOf(ret.value, "exploit") = <<Mod(StrV("m/high"), StrV("high"))>>
    /\ EntriesOf(ret.value, "payload") = <<>>
    /\ EntriesOf(KeptAt("medium"), "payload") = <<Mod(StrV("m/medium"), StrV("medium"))>>

(***************************************************************************)
(* Properties of disconnect, checked under SpecRunner.                     *)
(***************************************************************************)
\* C27: disconnect is safe in every state and idempotent.  Called on a
\* runner that holds no client it issues no logout and returns; called on a
\* connected runner it issues logout once and leaves the runner without a
\* client, also when logout raises an Exception, which it swallows; a
\* disconnect that follows a disconnect issues no further logout; a later
\* successful connect gives the runner a fresh client.
C27_DisconnectIsSafe ==
    [][/\ lastOp' = "disconnect" =>
            /\ client = NoClient =>
                 /\ rpc'.logout = rpc.logout
                 /\ ret'.calls = <<>>
                 /\ ret'.kind = "return"
                 /\ client' = NoClient
            /\ (client # NoClient /\ arg'.how \in {"ok", "raise"}) =>
                 /\ rpc'.logout = rpc.logout + 1
                 /\ ret'.calls = <<"logout">>
                 /\ ret'.kind = "return"
                 /\ client' = NoClient
            /\ (lastOp = "disconnect" /\ ret.kind = "return") =>
                 (rpc'.logout = rpc.logout /\ client' = NoClient /\ ret'.kind = "return")
            /\ rpc'.login = rpc.login /\ rpc'.module = rpc.module
       /\ (lastOp' = "connect" /\ arg'.how = "ok") =>
            /\ client' # NoClient
            /\ client' # client
            /\ client' = rpc.sessions + 1
            /\ rpc'.sessions = rpc.sessions + 1]_vars

\* C27 witness: on a connected runner logout raised an Exception, and
\* disconnect has returned and left the runner without a client
C27_Witness ==
    /\ lastOp = "disconnect"
    /\ arg.how = "raise"
    /\ pending = [exc |-> "", code |-> 1, at |-> "disconnect"]
    /\ ret.kind = "return"
    /\ ret.calls = <<"logout">>
    /\ rpc.logout = 1
    /\ client = NoClient

(***************************************************************************)
(* Properties of the analysis pass of ai_scan, checked under Spec.         *)
(***************************************************************************)
\* ai_scan has added the results of run_module_sequence to its reporter
Collected ==
    /\ cmd = "ai_scan"
    /\ \/ pc \in {"analyze", "report"}
       \/ pc = "done" /\ (pending.exc = "" \/ pending.at = "analyze")

\* C28: the analysis pass of ai_scan leaves the result list unchanged.  From
\* the collection of the module runs' records on, the reporter holds exactly
\* those records, in their order and with their field values (and a
\* timestamp each), whether the analysis is disabled, succeeds, fails or is
\* interrupted; the summary that is printed and the report that is saved
\* after it are those of these records and hold nothing of the analysis
\* payload.
C28_AnalysisLeavesResults ==
    Collected =>
      /\ Len(results) = Len(seqResults)
      /\ \A i \in 1..Len(results) :
           /\ Untimed(results[i]) = Untimed(seqResults[i])
           /\ Get(results[i], "timestamp") = Timestamp(i)
      /\ (pc = "done" /\ pending.exc = "") =>
           /\ summary = print_summary(results)
           /\ Len(summary.rows) = Len(seqResults)
           /\ opts.output = NoOutput => file = NoFile
           /\ opts.output # NoOutput =>
                IF file.fmt = "json"
                THEN JsonLoads(file.text) = [ok |-> TRUE, val |-> ListV(results)]
                ELSE file.fmt \in {"yaml", "text"} /\ file.text = results

\* C28 witness: the analysis succeeded, and ai_scan has ended with a JSON
\* report of the two records of its two module runs
C28_Witness ==
    /\ Collected
    /\ pc = "done"
    /\ cfg.ai_enabled
    /\ aiCalls = 2
    /\ reply.how = "text"
    /\ HasKey(ai_analysis, "summary")
    /\ Len(seqResults) = 2
    /\ Len(results) = 2
    /\ file.fmt = "json"
    /\ exitCode = <<0>>

====
